---- MODULE Spec2Model ----
(***************************************************************************)
(* Cloud worker of the routing gateway: the /v1/embeddings handler with    *)
(* its account-fallback loop (cloud/src/handlers/embeddings.js), the D1    *)
(* storage service with its module-level requestCache                      *)
(* (cloud/src/services/storage.js) and the /sync merge                     *)
(* (cloud/src/handlers/sync.js).                                           *)
(*                                                                         *)
(* Time is counted in units of 500 ms.  A machine record is modelled by    *)
(* its providers map: a function from the connection ids it holds to       *)
(* connection records.  JavaScript null / undefined are 0 for timestamps   *)
(* and codes, "null" for strings and Undef for backoffLevel.               *)
(***************************************************************************)
EXTENDS Integers, Sequences, FiniteSets, TLC

\* ---------------------------------------------------------------- bounds
\* Environment events (clock advances, token refreshes, POST /sync requests)
\* that may happen while the requests are served.
MaxEvents == 1
\* Upstream calls made by all requests together.
MaxAttempts == 2
\* getProjectIdForConnection calls in one behaviour.
MaxCalls == 3
\* Models of a combo.
MaxModels == 3
\* Complete lines of an upstream SSE body.
MaxLines == 2
\* SSE messages of a stream that is collapsed.
MaxMsgs == 3
\* Tools of any kind at the end of a tool array.
MaxTail == 2
\* Schemas inside a schema that is cleaned.
MaxDepth == 2
\* Messages of a conversation that is converted.
MaxTurns == 3
\* The largest number of tokens in a request body.
MaxTokens == 4
\* Upstream calls of the requests that are followed through the fallback loop.
MaxTries == 3

\* ------------------------------------------------------------- constants
UnitsPerSec == 2
CACHE_TTL == 5 * UnitsPerSec
T0 == 500 * UnitsPerSec
Undef == 0 - 1
DefaultPriority == 999
SERVICE_UNAVAILABLE == 503
BAD_REQUEST == 400

Reqs == {"r1", "r2"}
Procs == Reqs \cup {"sync"}
Conns == {"A", "B"}
ObjIds == 1 .. (Cardinality(Procs) + 1)
TickSteps == {CACHE_TTL}
ConnOrder == <<"A", "B">>
UpstreamStatuses == {200, 400, 429, 500}
Provider == "openai"

VARIABLES
    now,          \* Date.now()
    events,       \* environment events so far
    db,           \* the row of table machines: providers map
    heap,         \* parsed machine records living in the isolate
    cache,        \* requestCache entry: [obj, timestamp], obj = 0 when absent
    pc,           \* position of each request / of the sync handler
    obj,          \* object a pending saveMachineData will put in the cache
    pending,      \* JSON.stringify(data) bound to a pending upsert
    cred,         \* credentials returned by getProviderCredentials
    exclude,      \* excludeConnectionId
    lastStatus,   \* lastStatus of the fallback loop
    resp,         \* the response returned to the client
    attempts,     \* upstream calls made: sequence of [conn, status]
    marks,        \* markAccountUnavailable calls: sequence of connection ids
    successCalls, \* onRequestSuccess invocations: sequence of connection ids
    syncBody,     \* body.providers of the POST /sync being handled
    tokStored,    \* the stored connection a token refresh writes to
    tokBefore,    \* tokStored before the last credential update
    tokResult,    \* newCredentials of the last credential update
    tokPc,        \* position of the token refresh
    projectIdCache, \* projectIdCache row of the connection: [has, fetchedAt]
    pendingFetches, \* pendingFetches row: [fetch, startedAt], fetch = 0 when absent
    fetches,      \* the project-ID fetches started so far
    calls,        \* getProjectIdForConnection calls made
    nextSweep,    \* when the cleanup timer fires next
    upstreamConn, \* upstream connection of the client's request
    removedUpTo,  \* history: getProjectIdForConnection calls made before the last removeConnection
    refreshCalls, \* per _refreshProjectId call: the fetch whose promise it was handed, and whether its then-callback persisted
    attempt,      \* onboardUser: attempt of the polling loop
    onbPc,        \* onboardUser: what the loop is awaiting
    timer,        \* onboardUser: time spent in the current attempt or sleep
    lastGap,      \* onboardUser: time between the last two attempts
    knownCodexModels, \* GithubExecutor.knownCodexModels
    ghModel,      \* model of each execute() call
    ghPc,         \* position of each execute() call
    ghCalls,      \* endpoints each execute() call has requested
    comboOutcomes, \* what handleSingleModel answers for each combo model
    comboTried,   \* the combo models tried so far
    comboResp,    \* the response handleComboChat returned
    upstream,     \* body of the /responses response: lines, read, state
    buffer,       \* buffer of the transform stream
    down,         \* frames enqueued on the downstream stream
    downState,    \* state of the downstream stream
    clientStream, \* stream flag of the client's request
    logged,       \* lines parseSSELine has logged
    sseMessages,  \* SSE messages given to convertResponsesStreamToJson
    collapsed,    \* its result
    wReq,         \* request given to worker.fetch
    wPc,          \* how far the request has come
    wResp,        \* response of worker.fetch
    tools,        \* argument of sanitizeTools
    sanitized,    \* its result
    schema,       \* argument of cleanJSONSchemaForAntigravity
    cleaned,      \* its result
    chat,         \* body.messages given to buildCursorRequest
    converted,    \* messages of the request it builds
    mtBody,       \* argument of adjustMaxTokens
    mtResult      \* its result

tokenVars == <<tokStored, tokBefore, tokResult, tokPc>>

\* The variables the embeddings router never writes.
projectVars == <<projectIdCache, pendingFetches, fetches, calls, nextSweep,
                 upstreamConn, removedUpTo, refreshCalls>>

onbVars == <<attempt, onbPc, timer, lastGap>>
ghVars == <<knownCodexModels, ghModel, ghPc, ghCalls>>
comboVars == <<comboOutcomes, comboTried, comboResp>>
sseVars == <<upstream, buffer, down, downState, clientStream, logged>>
collapseVars == <<sseMessages, collapsed>>
workerVars == <<wReq, wPc, wResp>>
toolVars == <<tools, sanitized>>

auxVars == <<onbVars, ghVars, comboVars, sseVars, collapseVars, workerVars,
             toolVars>>

\* The translator helpers.
cleanVars == <<schema, cleaned>>
convVars == <<chat, converted>>
maxTokVars == <<mtBody, mtResult>>
xlatVars == <<cleanVars, convVars, maxTokVars>>

extVars == <<tokenVars, projectVars, auxVars, xlatVars>>

routerVars == <<now, events, db, heap, cache, pc, obj, pending, cred, exclude,
                lastStatus, resp, attempts, marks, successCalls, syncBody>>

vars == <<routerVars, extVars>>

\* ------------------------------------------------------------ data model
Conn(prio, active, st, err, code, until, level, upd) ==
    [provider |-> Provider, isActive |-> active, priority |-> prio,
     status |-> st, lastError |-> err, errorCode |-> code,
     rateLimitedUntil |-> until, backoffLevel |-> level,
     updatedAt |-> upd, accessToken |-> "t0"]

Healthy(prio) == Conn(prio, TRUE, "active", "null", 0, 0, 0, T0 - 100)

Limited(prio, code, until) ==
    Conn(prio, TRUE, "unavailable", "err", code, until, 1, T0 - 100)

EmptyRec == [c \in {} |-> 0]
NoCred == [kind |-> "none", id |-> "-", status |-> "null", lastError |-> "null",
           rateLimitedUntil |-> 0, retryAfter |-> 0, lastErrorCode |-> 0]
NoResp == [status |-> 0, retryAfter |-> 0, kind |-> "none", conn |-> "-"]
NoCache == [obj |-> 0, timestamp |-> 0]

\* A provider record of the web side, as sent in body.providers of POST /sync:
\* the web side keeps no status field, the record is newer than the worker's
\* seed and carries a cooldown of 120 s.
WebLimited(prio) ==
    [Limited(prio, 429, T0 + 120 * UnitsPerSec)
        EXCEPT !.status = "null", !.updatedAt = T0 - 50]

\* The payloads POST /sync receives: connection A only, so a merge drops B.
SyncBodies ==
    { [c \in {"A"} |-> WebLimited(1)] }

\* Machine records the worker can hold when the first request arrives.
SeedRecords ==
    { [c \in Conns |-> IF c = "A" THEN Healthy(1) ELSE Healthy(2)],
      [c \in Conns |-> IF c = "A" THEN Limited(1, 429, T0 + 300 * UnitsPerSec - 1)
                                   ELSE Limited(2, 429, T0 + 300 * UnitsPerSec)],
      [c \in Conns |-> IF c = "A" THEN Limited(1, 429, T0 - 10) ELSE Healthy(2)],
      [c \in Conns |-> IF c = "A" THEN Limited(0, 500, T0 - 10)
                                   ELSE [Healthy(1) EXCEPT !.isActive = FALSE]] }

Min(a, b) == IF a < b THEN a ELSE b
Max(a, b) == IF a > b THEN a ELSE b
RECURSIVE Pow2(_)
Pow2(n) == IF n <= 0 THEN 1 ELSE 2 * Pow2(n - 1)

\* ------------------------------------------ open-sse/services/accountFallback
\* Error classification: shouldFallback, cooldown and next backoff level.
checkFallbackError(status, level) ==
    IF status = 429
    THEN [shouldFallback |-> TRUE,
          cooldown |-> Min(60 * UnitsPerSec * Pow2(level), 3600 * UnitsPerSec),
          newBackoffLevel |-> level + 1]
    ELSE IF status >= 500
    THEN [shouldFallback |-> TRUE,
          cooldown |-> Min(30 * UnitsPerSec * Pow2(level), 600 * UnitsPerSec),
          newBackoffLevel |-> level + 1]
    ELSE IF status \in {401, 403}
    THEN [shouldFallback |-> TRUE, cooldown |-> 300 * UnitsPerSec,
          newBackoffLevel |-> level + 1]
    ELSE [shouldFallback |-> FALSE, cooldown |-> 0, newBackoffLevel |-> level]

getUnavailableUntil(cooldown) == now + cooldown

isAccountUnavailable(until) == until # 0 /\ until > now

\* Smallest rateLimitedUntil still in the future among conns, 0 when none.
getEarliestRateLimitedUntil(d, cs) ==
    LET lim == {c \in cs : isAccountUnavailable(d[c].rateLimitedUntil)}
    IN IF lim = {} THEN 0
       ELSE LET m == CHOOSE c \in lim :
                        \A e \in lim : d[c].rateLimitedUntil <= d[e].rateLimitedUntil
            IN d[m].rateLimitedUntil

\* Text of the upstream error handed to the fallback loop.
ErrorText(status) == IF status = 429 THEN "rate limited" ELSE "upstream error"

\* ------------------------------------------------- embeddings.js helpers
Pos(c) == CHOOSE i \in 1 .. Len(ConnOrder) : ConnOrder[i] = c

EffPriority(p) == IF p = 0 THEN DefaultPriority ELSE p

\* The sort with the comparison reversed.
SortHead_Descending(cs, key) ==
    CHOOSE c \in cs : \A e \in cs \ {c} :
        key[c] > key[e] \/ (key[c] = key[e] /\ Pos(c) < Pos(e))

\* First element of cs under the stable ascending sort by key[c], entries in
\* key order.
SortHead(cs, key) ==
    CHOOSE c \in cs : \A e \in cs \ {c} :
        key[c] < key[e] \/ (key[c] = key[e] /\ Pos(c) < Pos(e))

\* The filter without the excludeConnectionId test.
Eligible_NoExclude(d, ex) ==
    {c \in DOMAIN d : /\ d[c].provider = Provider
                      /\ d[c].isActive
                      /\ ~isAccountUnavailable(d[c].rateLimitedUntil)}

\* The .filter of getProviderCredentials.
Eligible(d, ex) ==
    {c \in DOMAIN d : /\ d[c].provider = Provider
                      /\ d[c].isActive
                      /\ ~(ex # "-" /\ c = ex)
                      /\ ~isAccountUnavailable(d[c].rateLimitedUntil)}

\* allConnections without the isActive test.
ActiveOfProvider_AnyState(d) ==
    {c \in DOMAIN d : d[c].provider = Provider}

\* allConnections of getProviderCredentials: the active connections of the
\* provider, excluded or not.
ActiveOfProvider(d) ==
    {c \in DOMAIN d : d[c].provider = Provider /\ d[c].isActive}

getProviderCredentials(d, ex) ==
    LET pcs == Eligible(d, ex)
        all == ActiveOfProvider(d)
        earliest == getEarliestRateLimitedUntil(d, all)
        rl == {c \in all : d[c].rateLimitedUntil # 0 /\ d[c].rateLimitedUntil > now}
        Prio == [c \in pcs |-> EffPriority(d[c].priority)]
        Until == [c \in rl |-> d[c].rateLimitedUntil]
    IN IF pcs # {}
       THEN LET c == SortHead(pcs, Prio)
            IN [kind |-> "cred", id |-> c, status |-> d[c].status,
                lastError |-> d[c].lastError,
                rateLimitedUntil |-> d[c].rateLimitedUntil,
                retryAfter |-> 0, lastErrorCode |-> 0]
       ELSE IF earliest # 0
       THEN [kind |-> "allRateLimited", id |-> "-", status |-> "null",
             lastError |-> d[SortHead(rl, Until)].lastError,
             rateLimitedUntil |-> 0,
             retryAfter |-> earliest,
             lastErrorCode |-> d[SortHead(rl, Until)].errorCode]
       ELSE [kind |-> "none", id |-> "-", status |-> "null",
             lastError |-> "null", rateLimitedUntil |-> 0,
             retryAfter |-> 0, lastErrorCode |-> 0]

\* Math.ceil((retryAfter - Date.now()) / 1000)
RetryAfterSec(retryAfter) ==
    ((retryAfter - now) + UnitsPerSec - 1) \div UnitsPerSec

\* The Retry-After header of the allRateLimited response.
RetryAfterHeader(retryAfter) == Max(RetryAfterSec(retryAfter), 1)

\* The stored error code taken before the status of this request's failure.
RateLimitedStatus_CodeFirst(last, code) ==
    IF code # 0 THEN code ELSE IF last # 0 THEN last ELSE SERVICE_UNAVAILABLE

\* status of the allRateLimited response
RateLimitedStatus(last, code) ==
    IF last # 0 THEN last ELSE IF code # 0 THEN code ELSE SERVICE_UNAVAILABLE

\* status of the "no more accounts" response
ExhaustedStatus(last) == IF last # 0 THEN last ELSE SERVICE_UNAVAILABLE

\* markAccountUnavailable with the cooldown left out of rateLimitedUntil.
markAccountUnavailable_NoCooldown(d, c, status) ==
    LET level == IF d[c].backoffLevel = Undef THEN 0 ELSE d[c].backoffLevel
        fb == checkFallbackError(status, level)
    IN [d EXCEPT ![c] = [@ EXCEPT
            !.rateLimitedUntil = getUnavailableUntil(0),
            !.status = "unavailable",
            !.lastError = ErrorText(status),
            !.errorCode = status,
            !.backoffLevel = fb.newBackoffLevel,
            !.updatedAt = now]]

\* The field writes of markAccountUnavailable on connection c of record d.
markAccountUnavailable(d, c, status) ==
    LET level == IF d[c].backoffLevel = Undef THEN 0 ELSE d[c].backoffLevel
        fb == checkFallbackError(status, level)
    IN [d EXCEPT ![c] = [@ EXCEPT
            !.rateLimitedUntil = getUnavailableUntil(fb.cooldown),
            !.status = "unavailable",
            !.lastError = ErrorText(status),
            !.errorCode = status,
            !.backoffLevel = fb.newBackoffLevel,
            !.updatedAt = now]]

\* hasError of clearAccountError, from the credentials snapshot.
hasError(cr) ==
    cr.status = "unavailable" \/ cr.lastError # "null" \/ cr.rateLimitedUntil # 0

\* The field writes of clearAccountError.
clearAccountError(d, c) ==
    [d EXCEPT ![c] = [@ EXCEPT
            !.status = "active", !.lastError = "null",
            !.rateLimitedUntil = 0, !.backoffLevel = 0, !.updatedAt = now]]

\* updateCredentials that also reports the account as recovered.
updateCredentials_ResetsStatus(d, c, token) ==
    [d EXCEPT ![c] = [@ EXCEPT !.accessToken = token, !.status = "active",
                               !.updatedAt = now]]

\* The field writes of updateCredentials.
updateCredentials(d, c, token) ==
    [d EXCEPT ![c] = [@ EXCEPT !.accessToken = token, !.updatedAt = now]]

\* ------------------------------------------------------ token records
\* An absent string field is "null", an absent number 0.
NoPsd == [copilotToken |-> "null", copilotTokenExpiresAt |-> 0, baseUrl |-> "null"]

\* providerSpecificData of a GitHub connection; expiry in seconds.
CopilotPsd(token, expiresAt) ==
    [copilotToken |-> token, copilotTokenExpiresAt |-> expiresAt,
     baseUrl |-> "https://ghe"]

\* A stored OAuth connection.
StoredConn(prov, rt, expAt, psd) ==
    [provider |-> prov, accessToken |-> "g0", refreshToken |-> rt,
     expiresIn |-> IF expAt = 0 THEN 0 ELSE 3600, expiresAt |-> expAt,
     providerSpecificData |-> psd, projectId |-> "p0", updatedAt |-> T0 - 100]

\* A newCredentials object; hasPsd tells whether providerSpecificData is set.
NewCreds(at, rt, ein, hasPsd, psd, pid, ct, ctExp) ==
    [accessToken |-> at, refreshToken |-> rt, expiresIn |-> ein,
     hasPsd |-> hasPsd, providerSpecificData |-> psd, projectId |-> pid,
     copilotToken |-> ct, copilotTokenExpiresAt |-> ctExp]

NoNew == NewCreds("null", "null", 0, FALSE, NoPsd, "null", "null", 0)

\* No token refresh is under way.
TokenIdle ==
    /\ tokStored = StoredConn("github", "r0", 0, NoPsd)
    /\ tokBefore = tokStored
    /\ tokResult = NoNew
    /\ tokPc = "off"

\* --------------------------------------------------- project-ID records
FetchIds == 1 .. MaxCalls

\* A fetch: where its promise stands and who aborted its controller.
NoFetch == [phase |-> "none", aborted |-> "no"]
Settled == [phase |-> "settled", aborted |-> "no"]

NoRow == [has |-> FALSE, fetchedAt |-> 0]
NoPending == [fetch |-> 0, startedAt |-> 0]
NoRefresh == [fetch |-> 0, persisted |-> FALSE]

CACHE_TTL_MS == 3600 * UnitsPerSec
PENDING_TTL_MS == 120 * UnitsPerSec
CLEANUP_INTERVAL_MS == 600 * UnitsPerSec

\* The module has just been loaded: both maps are empty and the cleanup
\* timer is armed.
ProjectIdle ==
    /\ projectIdCache = NoRow
    /\ pendingFetches = NoPending
    /\ fetches = [f \in FetchIds |-> NoFetch]
    /\ calls = 0
    /\ nextSweep = T0 + CLEANUP_INTERVAL_MS
    /\ upstreamConn = "none"
    /\ removedUpTo = 0
    /\ refreshCalls = [c \in FetchIds |-> NoRefresh]

\* ----------------------------------------------- the rest of the gateway
\* The execute() calls of the GithubExecutor that are followed.
GhReqs == {"g1", "g2"}

\* A line of an SSE body: what it holds and, for a data line that is not
\* JSON, the length of its data.
Line(kind, length) == [kind |-> kind, length |-> length]
NoLine == Line("none", 0)

\* onboardUser has not been called.
OnbIdle ==
    /\ attempt = 0
    /\ onbPc = "off"
    /\ timer = 0
    /\ lastGap = Undef

\* A GithubExecutor that has executed nothing.
GhIdle ==
    /\ knownCodexModels = {}
    /\ ghModel = [q \in GhReqs |-> "none"]
    /\ ghPc = [q \in GhReqs |-> "off"]
    /\ ghCalls = [q \in GhReqs |-> <<>>]

\* No combo request.
ComboIdle ==
    /\ comboOutcomes = <<>>
    /\ comboTried = <<>>
    /\ comboResp = [status |-> 0, from |-> "none"]

\* No /responses stream is being transformed.
SseIdle ==
    /\ upstream = [lines |-> <<>>, tail |-> NoLine, read |-> 0, state |-> "off"]
    /\ buffer = NoLine
    /\ down = <<>>
    /\ downState = "off"
    /\ clientStream = FALSE
    /\ logged = <<>>

\* No stream is being collapsed.
CollapseIdle ==
    /\ sseMessages = <<>>
    /\ collapsed = [status |-> "none", output |-> <<>>]

\* The worker has received no request.
WorkerIdle ==
    /\ wReq = [method |-> "none", path |-> "none",
               Authorization |-> [scheme |-> "none", key |-> "null"],
               machine |-> FALSE, dashboardAuth |-> FALSE, bodyOk |-> FALSE]
    /\ wPc = "off"
    /\ wResp = [status |-> 0, cors |-> FALSE, stage |-> "none"]

\* sanitizeTools has not been called.
ToolIdle ==
    /\ tools = <<>>
    /\ sanitized = <<[type |-> "none", function |-> FALSE,
                     name |-> [id |-> 0, len |-> 0, badAt |-> 0, pad |-> FALSE]]>>

AuxIdle ==
    /\ OnbIdle
    /\ GhIdle
    /\ ComboIdle
    /\ SseIdle
    /\ CollapseIdle
    /\ WorkerIdle
    /\ ToolIdle

\* cleanJSONSchemaForAntigravity has not been called.
CleanIdle ==
    /\ schema = [p \in {<<>>} |-> "none"]
    /\ cleaned = [p \in {<<>>} |-> "none"]

\* convertMessages has not been called.
ConvIdle ==
    /\ chat = <<>>
    /\ converted = <<[role |-> "none", text |-> FALSE, calls |-> <<>>,
                      wrapped |-> <<>>, from |-> 0]>>

\* adjustMaxTokens has not been called.
MaxTokIdle ==
    /\ mtBody = [max_tokens |-> 0, budget_tokens |-> 0, tools |-> FALSE,
                 DEFAULT_MAX_TOKENS |-> 0, DEFAULT_MIN_TOKENS |-> 0]
    /\ mtResult = 0 - 1

XlatIdle ==
    /\ CleanIdle
    /\ ConvIdle
    /\ MaxTokIdle

\* ------------------------------------------------------ storage.js cache
CacheHit == cache.obj # 0 /\ now - cache.timestamp < CACHE_TTL

Referenced(c, objf) == {c.obj} \cup {objf[q] : q \in Procs}

FreshObj == CHOOSE i \in ObjIds :
    /\ i \notin Referenced(cache, obj)
    /\ \A j \in ObjIds : j < i => j \in Referenced(cache, obj)

\* New isolate memory: heap h, cache entry c, pending-save references objf;
\* records no longer referenced are dropped.
SetMem(h, c, objf) ==
    /\ cache' = c
    /\ obj' = objf
    /\ heap' = [i \in ObjIds |-> IF i \in Referenced(c, objf) THEN h[i] ELSE EmptyRec]

\* ------------------------------------------------------------------ Init
Init ==
    /\ now = T0
    /\ events = 0
    /\ db \in SeedRecords
    /\ heap = [i \in ObjIds |-> EmptyRec]
    /\ cache = NoCache
    /\ pc = [p \in Procs |-> "idle"]
    /\ obj = [p \in Procs |-> 0]
    /\ pending = [p \in Procs |-> EmptyRec]
    /\ cred = [r \in Reqs |-> NoCred]
    /\ exclude = [r \in Reqs |-> "-"]
    /\ lastStatus = [r \in Reqs |-> 0]
    /\ resp = [r \in Reqs |-> NoResp]
    /\ attempts = [r \in Reqs |-> <<>>]
    /\ marks = [r \in Reqs |-> <<>>]
    /\ successCalls = [r \in Reqs |-> <<>>]
    /\ syncBody = EmptyRec
    /\ TokenIdle
    /\ ProjectIdle
    /\ XlatIdle
    /\ AuxIdle

\* The cloud worker holds no machine record and serves no request.
RouterIdle ==
    /\ now = T0
    /\ events = 0
    /\ db = EmptyRec
    /\ heap = [i \in ObjIds |-> EmptyRec]
    /\ cache = NoCache
    /\ pc = [p \in Procs |-> "idle"]
    /\ obj = [p \in Procs |-> 0]
    /\ pending = [p \in Procs |-> EmptyRec]
    /\ cred = [r \in Reqs |-> NoCred]
    /\ exclude = [r \in Reqs |-> "-"]
    /\ lastStatus = [r \in Reqs |-> 0]
    /\ resp = [r \in Reqs |-> NoResp]
    /\ attempts = [r \in Reqs |-> <<>>]
    /\ marks = [r \in Reqs |-> <<>>]
    /\ successCalls = [r \in Reqs |-> <<>>]
    /\ syncBody = EmptyRec

\* ------------------------------------------------------- getMachineData
\* getMachineData returns the cached object while the entry is younger than
\* CACHE_TTL; otherwise it parses the D1 row into a new object and caches it.
\* DataObj is the object returned, DataHeap and DataCache the isolate memory
\* after the call.
DataObj == IF CacheHit THEN cache.obj ELSE FreshObj
DataHeap == IF CacheHit THEN heap ELSE [heap EXCEPT ![FreshObj] = db]
DataCache == IF CacheHit THEN cache ELSE [obj |-> FreshObj, timestamp |-> now]

\* saveMachineData: the upsert commits the bound JSON, then the cache entry
\* is set to the object that was saved.
SaveMachineData(p) ==
    /\ db' = pending[p]
    /\ pending' = [pending EXCEPT ![p] = EmptyRec]
    /\ SetMem(heap, [obj |-> obj[p], timestamp |-> now], [obj EXCEPT ![p] = 0])

\* ----------------------------------------------------- handleEmbeddings
\* Some request has not been answered yet.
Serving == \E r \in Reqs : pc[r] # "done"

\* A request passes authentication and body validation and enters the loop.
Start(r) ==
    /\ pc[r] = "idle"
    /\ pc' = [pc EXCEPT ![r] = "select"]
    /\ UNCHANGED <<now, events, db, heap, cache, obj, pending, cred, exclude,
                   lastStatus, resp, attempts, marks, successCalls, syncBody>>
    /\ UNCHANGED extVars

\* The response of the allRateLimited branch.
RateLimitedResponse(r, res) ==
    [status |-> RateLimitedStatus(lastStatus[r], res.lastErrorCode),
     retryAfter |-> RetryAfterHeader(res.retryAfter),
     kind |-> "allRateLimited", conn |-> "-"]

\* The response when getProviderCredentials returns null.
NoCredentialsResponse(r) ==
    IF exclude[r] = "-"
    THEN [status |-> BAD_REQUEST, retryAfter |-> 0, kind |-> "noCredentials", conn |-> "-"]
    ELSE [status |-> ExhaustedStatus(lastStatus[r]), retryAfter |-> 0,
          kind |-> "exhausted", conn |-> "-"]

\* Top of the while loop, on the machine record o of heap h.
SelectBody(r, o, h, c) ==
    LET res == getProviderCredentials(h[o], exclude[r])
    IN /\ cred' = [cred EXCEPT ![r] = res]
       /\ IF res.kind = "cred"
          THEN /\ pc' = [pc EXCEPT ![r] = "upstream"]
               /\ resp' = resp
          ELSE /\ pc' = [pc EXCEPT ![r] = "done"]
               /\ resp' = [resp EXCEPT ![r] =
                     IF res.kind = "allRateLimited"
                     THEN RateLimitedResponse(r, res)
                     ELSE NoCredentialsResponse(r)]
       /\ SetMem(h, c, obj)
       /\ UNCHANGED <<now, events, db, pending, exclude, lastStatus, attempts,
                      marks, successCalls, syncBody>>

Select(r) ==
    /\ pc[r] = "select"
    /\ SelectBody(r, DataObj, DataHeap, DataCache)
    /\ UNCHANGED extVars

\* onRequestSuccess bound to the loop variable excludeConnectionId.
OnRequestSuccessConn_Excluded(r) == exclude[r]

\* The connection onRequestSuccess clears: credentials.id of this iteration.
OnRequestSuccessConn(r) == cred[r].id

\* The connection the loop passes to markAccountUnavailable.
MarkConn(r) == cred[r].id

SuccessResponse(r) ==
    [status |-> 200, retryAfter |-> 0, kind |-> "success", conn |-> cred[r].id]

\* The error response rewritten to a gateway error.
PassthroughResponse_Rewritten(r, s) ==
    [status |-> SERVICE_UNAVAILABLE, retryAfter |-> 0, kind |-> "passthrough",
     conn |-> cred[r].id]

\* return result.response for an error that is not fallback-eligible: the
\* response the core built from the upstream answer, status s.
PassthroughResponse(r, s) ==
    [status |-> s, retryAfter |-> 0, kind |-> "passthrough", conn |-> cred[r].id]

\* handleEmbeddingsCore answers: the upstream status decides the branch.
UpstreamBody(r) ==
    /\ pc[r] = "upstream"
    /\ \E s \in UpstreamStatuses :
        /\ attempts' = [attempts EXCEPT ![r] = Append(@, [conn |-> cred[r].id, status |-> s])]
        /\ IF s = 200
           THEN /\ successCalls' = [successCalls EXCEPT ![r] = Append(@, OnRequestSuccessConn(r))]
                /\ IF hasError(cred[r])
                   THEN pc' = [pc EXCEPT ![r] = "clear"] /\ resp' = resp
                   ELSE /\ pc' = [pc EXCEPT ![r] = "done"]
                        /\ resp' = [resp EXCEPT ![r] = SuccessResponse(r)]
                /\ marks' = marks
           ELSE IF checkFallbackError(s, 0).shouldFallback
           THEN /\ marks' = [marks EXCEPT ![r] =
                        Append(@, MarkConn(r))]
                /\ pc' = [pc EXCEPT ![r] = "mark"]
                /\ UNCHANGED <<successCalls, resp>>
           ELSE /\ pc' = [pc EXCEPT ![r] = "done"]
                /\ resp' = [resp EXCEPT ![r] = PassthroughResponse(r, s)]
                /\ UNCHANGED <<successCalls, marks>>
    /\ UNCHANGED <<now, events, db, heap, cache, obj, pending, cred, exclude,
                   lastStatus, syncBody>>
    /\ UNCHANGED extVars

Upstream(r) ==
    /\ Len(attempts["r1"]) + Len(attempts["r2"]) < MaxAttempts
    /\ UpstreamBody(r)

LastAttempt(r) == attempts[r][Len(attempts[r])]
LastMark(r) == marks[r][Len(marks[r])]

\* The loop keeping the status of the first failure.
Continue_KeepsFirstStatus(r) ==
    /\ exclude' = [exclude EXCEPT ![r] = cred[r].id]
    /\ lastStatus' = [lastStatus EXCEPT ![r] =
            IF @ # 0 THEN @ ELSE attempts[r][Len(attempts[r])].status]
    /\ pc' = [pc EXCEPT ![r] = "select"]

\* After await markAccountUnavailable: exclude the account and loop.
Continue(r) ==
    /\ exclude' = [exclude EXCEPT ![r] = cred[r].id]
    /\ lastStatus' = [lastStatus EXCEPT ![r] = LastAttempt(r).status]
    /\ pc' = [pc EXCEPT ![r] = "select"]

MarkBody(r, o, h, c) ==
    LET k == LastMark(r)
    IN /\ IF k \notin DOMAIN h[o]
          THEN /\ Continue(r)
               /\ SetMem(h, c, obj)
               /\ UNCHANGED pending
          ELSE LET d == markAccountUnavailable(h[o], k, LastAttempt(r).status)
               IN /\ pending' = [pending EXCEPT ![r] = d]
                  /\ pc' = [pc EXCEPT ![r] = "mark_save"]
                  /\ SetMem([h EXCEPT ![o] = d], c, [obj EXCEPT ![r] = o])
                  /\ UNCHANGED <<exclude, lastStatus>>
       /\ UNCHANGED <<now, events, db, cred, resp, attempts, marks, successCalls,
                      syncBody>>

Mark(r) ==
    /\ pc[r] = "mark"
    /\ MarkBody(r, DataObj, DataHeap, DataCache)
    /\ UNCHANGED extVars

MarkSave(r) ==
    /\ pc[r] = "mark_save"
    /\ SaveMachineData(r)
    /\ Continue(r)
    /\ UNCHANGED <<now, events, cred, resp, attempts, marks, successCalls,
                   syncBody>>
    /\ UNCHANGED extVars

ClearBody(r, o, h, c) ==
    LET k == cred[r].id
    IN /\ IF k \notin DOMAIN h[o]
          THEN /\ pc' = [pc EXCEPT ![r] = "done"]
               /\ resp' = [resp EXCEPT ![r] = SuccessResponse(r)]
               /\ SetMem(h, c, obj)
               /\ UNCHANGED pending
          ELSE LET d == clearAccountError(h[o], k)
               IN /\ pending' = [pending EXCEPT ![r] = d]
                  /\ pc' = [pc EXCEPT ![r] = "clear_save"]
                  /\ SetMem([h EXCEPT ![o] = d], c, [obj EXCEPT ![r] = o])
                  /\ resp' = resp
       /\ UNCHANGED <<now, events, db, cred, exclude, lastStatus, attempts, marks,
                      successCalls, syncBody>>

Clear(r) ==
    /\ pc[r] = "clear"
    /\ ClearBody(r, DataObj, DataHeap, DataCache)
    /\ UNCHANGED extVars

ClearSave(r) ==
    /\ pc[r] = "clear_save"
    /\ SaveMachineData(r)
    /\ pc' = [pc EXCEPT ![r] = "done"]
    /\ resp' = [resp EXCEPT ![r] = SuccessResponse(r)]
    /\ UNCHANGED <<now, events, cred, exclude, lastStatus, attempts, marks,
                   successCalls, syncBody>>
    /\ UNCHANGED extVars

\* handleEmbeddingsCore refreshed the token and calls onCredentialsRefreshed.
Refresh(r) ==
    /\ pc[r] = "upstream"
    /\ events < MaxEvents
    /\ events' = events + 1
    /\ pc' = [pc EXCEPT ![r] = "upd"]
    /\ UNCHANGED <<now, db, heap, cache, obj, pending, cred, exclude,
                   lastStatus, resp, attempts, marks, successCalls, syncBody>>
    /\ UNCHANGED extVars

UpdBody(r, o, h, c) ==
    LET k == cred[r].id
    IN /\ IF k \notin DOMAIN h[o]
          THEN /\ pc' = [pc EXCEPT ![r] = "upstream"]
               /\ SetMem(h, c, obj)
               /\ UNCHANGED pending
          ELSE LET d == updateCredentials(h[o], k, "t1")
               IN /\ pending' = [pending EXCEPT ![r] = d]
                  /\ pc' = [pc EXCEPT ![r] = "upd_save"]
                  /\ SetMem([h EXCEPT ![o] = d], c, [obj EXCEPT ![r] = o])
       /\ UNCHANGED <<now, events, db, cred, exclude, lastStatus, resp, attempts,
                      marks, successCalls, syncBody>>

Upd(r) ==
    /\ pc[r] = "upd"
    /\ UpdBody(r, DataObj, DataHeap, DataCache)
    /\ UNCHANGED extVars

UpdSave(r) ==
    /\ pc[r] = "upd_save"
    /\ SaveMachineData(r)
    /\ pc' = [pc EXCEPT ![r] = "upstream"]
    /\ UNCHANGED <<now, events, cred, exclude, lastStatus, resp, attempts,
                   marks, successCalls, syncBody>>
    /\ UNCHANGED extVars


\* ------------------------------------------------------------- sync.js
\* formatProviderData: the stored fields of a provider record.  backoffLevel
\* is not among them.
formatProviderData(p) ==
    [provider |-> p.provider, isActive |-> p.isActive, priority |-> p.priority,
     status |-> IF p.status = "null" THEN "active" ELSE p.status,
     lastError |-> p.lastError, errorCode |-> p.errorCode,
     rateLimitedUntil |-> p.rateLimitedUntil, backoffLevel |-> Undef,
     updatedAt |-> IF p.updatedAt = 0 THEN now ELSE p.updatedAt,
     accessToken |-> p.accessToken]

\* mergeProvider: the whole record of the side with the newer updatedAt.
mergeProvider(web, worker) ==
    [(IF worker.updatedAt > web.updatedAt
      THEN formatProviderData(worker)
      ELSE formatProviderData(web)) EXCEPT !.updatedAt = now]

\* mergedProviders of handlePost for body.providers = body.
MergedProviders(body, existing) ==
    [c \in DOMAIN body |->
        IF c \in DOMAIN existing
        THEN mergeProvider(body[c], existing[c])
        ELSE formatProviderData(body[c])]

\* POST /sync/:machineId up to the call of saveMachineData, for a payload
\* of bodies.
SyncPostOf(bodies) ==
    /\ pc["sync"] = "idle"
    /\ Serving
    /\ events < MaxEvents
    /\ events' = events + 1
    /\ \E body \in bodies :
        /\ syncBody' = body
        /\ pending' = [pending EXCEPT !["sync"] = MergedProviders(body, DataHeap[DataObj])]
    /\ pc' = [pc EXCEPT !["sync"] = "sync_save"]
    /\ SetMem(DataHeap, DataCache, obj)
    /\ UNCHANGED <<now, db, cred, exclude, lastStatus, resp, attempts, marks,
                   successCalls>>
    /\ UNCHANGED extVars

SyncPost == SyncPostOf(SyncBodies)

\* saveMachineData(machineId, finalData, env) completes: finalData is a new
\* object, which becomes the cache entry.
SyncSave ==
    /\ pc["sync"] = "sync_save"
    /\ db' = pending["sync"]
    /\ pending' = [pending EXCEPT !["sync"] = EmptyRec]
    /\ LET o == FreshObj
       IN SetMem([heap EXCEPT ![o] = pending["sync"]], [obj |-> o, timestamp |-> now], obj)
    /\ pc' = [pc EXCEPT !["sync"] = "idle"]
    /\ syncBody' = EmptyRec
    /\ UNCHANGED <<now, events, cred, exclude, lastStatus, resp, attempts, marks,
                   successCalls>>
    /\ UNCHANGED extVars

\* ------------------------------------------------------------------ time
Tick ==
    /\ Serving
    /\ events < MaxEvents
    /\ \E d \in TickSteps : now' = now + d
    /\ events' = events + 1
    /\ UNCHANGED <<db, heap, cache, pc, obj, pending, cred, exclude,
                   lastStatus, resp, attempts, marks, successCalls, syncBody>>
    /\ UNCHANGED extVars

Next ==
    \/ \E r \in Reqs : Start(r)
    \/ \E r \in Reqs : Select(r)
    \/ \E r \in Reqs : Upstream(r)
    \/ \E r \in Reqs : Mark(r)
    \/ \E r \in Reqs : MarkSave(r)
    \/ \E r \in Reqs : Clear(r)
    \/ \E r \in Reqs : ClearSave(r)
    \/ \E r \in Reqs : Refresh(r)
    \/ \E r \in Reqs : Upd(r)
    \/ \E r \in Reqs : UpdSave(r)
    \/ SyncPost
    \/ SyncSave
    \/ Tick

Spec == Init /\ [][Next]_vars

\* ------------------------------------------- getProviderCredentials alone
\* Connection records for the selection: every combination of priority
\* (0 stands for a missing one), updatedAt, cooldown and isActive; B may
\* belong to another provider.  Each connection has its own last error.
SelConn(c, prio, upd, until, active, prov) ==
    [Conn(prio, active, IF until = 0 THEN "active" ELSE "unavailable",
          IF until = 0 THEN "null" ELSE "err" \o c,
          IF until = 0 THEN 0 ELSE IF c = "A" THEN 429 ELSE 500,
          until, IF until = 0 THEN 0 ELSE 1, upd)
        EXCEPT !.provider = prov]

SelConns(c) ==
    { SelConn(c, prio, upd, until, active, prov) :
        prio \in {0, 1, 2}, upd \in {T0 - 100, T0 - 50},
        until \in {0, T0 + 60 * UnitsPerSec, T0 + 120 * UnitsPerSec},
        active \in BOOLEAN,
        prov \in IF c = "A" THEN {Provider} ELSE {Provider, "other"} }

SelRecords ==
    { [c \in Conns |-> IF c = "A" THEN a ELSE b] :
        a \in SelConns("A"), b \in SelConns("B") }

\* The selection applied to every record of SelRecords, for r1 with every
\* value of excludeConnectionId.
InitSel ==
    /\ now = T0
    /\ events = 0
    /\ db \in SelRecords
    /\ heap = [i \in ObjIds |-> EmptyRec]
    /\ cache = NoCache
    /\ pc = [p \in Procs |-> "idle"]
    /\ obj = [p \in Procs |-> 0]
    /\ pending = [p \in Procs |-> EmptyRec]
    /\ cred = [r \in Reqs |-> NoCred]
    /\ exclude \in { [r \in Reqs |-> IF r = "r1" THEN x ELSE "-"] :
                        x \in {"-"} \cup Conns }
    /\ lastStatus = [r \in Reqs |-> 0]
    /\ resp = [r \in Reqs |-> NoResp]
    /\ attempts = [r \in Reqs |-> <<>>]
    /\ marks = [r \in Reqs |-> <<>>]
    /\ successCalls = [r \in Reqs |-> <<>>]
    /\ syncBody = EmptyRec
    /\ TokenIdle
    /\ ProjectIdle
    /\ XlatIdle
    /\ AuxIdle

NextSel ==
    \/ \E r \in Reqs : Start(r)
    \/ \E r \in Reqs : Select(r)

SpecSel == InitSel /\ [][NextSel]_vars

\* ------------------------------------------------------- token refresh
\* TOKEN_EXPIRY_BUFFER_MS of open-sse/services/tokenRefresh.js: 5 minutes.
TOKEN_EXPIRY_BUFFER == 300 * UnitsPerSec

toExpiresAt(expiresIn) == now + expiresIn * UnitsPerSec

\* updateProviderCredentials followed by updateProviderConnection: the
\* truthy fields of newCredentials are spread over the stored connection.
updateProviderCredentials(c, n) ==
    [c EXCEPT
        !.accessToken = IF n.accessToken # "null" THEN n.accessToken ELSE @,
        !.refreshToken = IF n.refreshToken # "null" THEN n.refreshToken ELSE @,
        !.expiresAt = IF n.expiresIn # 0 THEN toExpiresAt(n.expiresIn) ELSE @,
        !.expiresIn = IF n.expiresIn # 0 THEN n.expiresIn ELSE @,
        !.providerSpecificData = IF n.hasPsd THEN n.providerSpecificData ELSE @,
        !.projectId = IF n.projectId # "null" THEN n.projectId ELSE @,
        !.updatedAt = now]

\* The field writes of the worker's updateCredentials on a connection.
updateCredentialsFields(c, n) ==
    [c EXCEPT
        !.accessToken = n.accessToken,
        !.refreshToken = IF n.refreshToken # "null" THEN n.refreshToken ELSE @,
        !.expiresAt = IF n.expiresIn # 0 THEN toExpiresAt(n.expiresIn) ELSE @,
        !.expiresIn = IF n.expiresIn # 0 THEN n.expiresIn ELSE @,
        !.updatedAt = now]

\* What refreshGitHubToken can return: null, a body without access_token,
\* or new tokens; refresh_token defaults to the one sent.
GitHubTokenResults(rt) ==
    { NoNew,
      NewCreds("null", rt, 0, FALSE, NoPsd, "null", "null", 0),
      NewCreds("g1", rt, 3600, FALSE, NoPsd, "null", "null", 0),
      NewCreds("g1", "r1", 3600, FALSE, NoPsd, "null", "null", 0) }

\* What refreshCopilotToken can return: null or {token, expiresAt}.
CopilotTokenResults ==
    { [token |-> "null", expiresAt |-> 0],
      [token |-> "c1", expiresAt |-> (T0 \div UnitsPerSec) + 1800] }

\* What getAccessToken can return to checkAndRefreshToken.
AccessResults(c) == GitHubTokenResults(c.refreshToken)

\* GithubExecutor.refreshCredentials(credentials) for each outcome of its
\* calls; NoNew stands for null.
refreshCredentials(c) ==
    UNION { IF cop1.token = "null" /\ c.refreshToken # "null"
            THEN UNION { IF gh.accessToken # "null"
                         THEN { IF cop2.token # "null"
                                THEN [gh EXCEPT !.copilotToken = cop2.token,
                                                !.copilotTokenExpiresAt = cop2.expiresAt]
                                ELSE gh : cop2 \in CopilotTokenResults }
                         ELSE { NoNew }
                       : gh \in GitHubTokenResults(c.refreshToken) }
            ELSE IF cop1.token # "null"
                 THEN { NewCreds(c.accessToken, c.refreshToken, 0, FALSE, NoPsd,
                                 "null", cop1.token, cop1.expiresAt) }
                 ELSE { NoNew }
          : cop1 \in CopilotTokenResults }

\* A refresh result of another executor that carries a new refresh token
\* and lifetime but no accessToken.
PartialResults == { NewCreds("null", "r1", 3600, FALSE, NoPsd, "null", "null", 0) }

\* refreshGitHubAndCopilotTokens(credentials) for each outcome of its calls.
refreshGitHubAndCopilotTokens(c) ==
    UNION { IF gh.accessToken = "null"
            THEN { gh }
            ELSE { IF cop.token = "null"
                   THEN gh
                   ELSE [gh EXCEPT !.hasPsd = TRUE,
                                   !.providerSpecificData =
                                       [NoPsd EXCEPT !.copilotToken = cop.token,
                                                     !.copilotTokenExpiresAt = cop.expiresAt]]
                   : cop \in CopilotTokenResults }
          : gh \in GitHubTokenResults(c.refreshToken) }

\* A credential update with newCredentials n that stores connection c.
Persist(c, n) ==
    /\ tokBefore' = tokStored
    /\ tokResult' = n
    /\ tokStored' = c

StoredConns ==
    { StoredConn(prov, rt, expAt, psd) :
        prov \in {"github", "gemini-cli"}, rt \in {"r0", "null"},
        expAt \in {0, T0 + 60 * UnitsPerSec, T0 + 3600 * UnitsPerSec},
        psd \in {NoPsd, CopilotPsd("c0", (T0 \div UnitsPerSec) + 60),
                  CopilotPsd("c0", (T0 \div UnitsPerSec) + 1800)} }

InitTok ==
    /\ now = T0
    /\ events = 0
    /\ db = EmptyRec
    /\ heap = [i \in ObjIds |-> EmptyRec]
    /\ cache = NoCache
    /\ pc = [p \in Procs |-> "idle"]
    /\ obj = [p \in Procs |-> 0]
    /\ pending = [p \in Procs |-> EmptyRec]
    /\ cred = [r \in Reqs |-> NoCred]
    /\ exclude = [r \in Reqs |-> "-"]
    /\ lastStatus = [r \in Reqs |-> 0]
    /\ resp = [r \in Reqs |-> NoResp]
    /\ attempts = [r \in Reqs |-> <<>>]
    /\ marks = [r \in Reqs |-> <<>>]
    /\ successCalls = [r \in Reqs |-> <<>>]
    /\ syncBody = EmptyRec
    /\ tokStored \in StoredConns
    /\ tokBefore = tokStored
    /\ tokResult = NoNew
    /\ tokPc = "idle"
    /\ ProjectIdle
    /\ XlatIdle
    /\ AuxIdle

\* checkAndRefreshToken, part 1: the access token is refreshed when it
\* expires within the buffer and persisted when the result has one.
CheckAccessToken ==
    /\ tokPc = "idle"
    /\ tokPc' = "access_done"
    /\ IF tokStored.expiresAt # 0 /\ tokStored.expiresAt - now < TOKEN_EXPIRY_BUFFER
       THEN \E n \in AccessResults(tokStored) :
               IF n.accessToken # "null"
               THEN Persist(updateProviderCredentials(tokStored, n), n)
               ELSE UNCHANGED <<tokStored, tokBefore, tokResult>>
       ELSE UNCHANGED <<tokStored, tokBefore, tokResult>>
    /\ UNCHANGED <<routerVars, projectVars, auxVars, xlatVars>>

\* checkAndRefreshToken, part 2: the Copilot token of a GitHub connection is
\* refreshed when it expires within the buffer; the other keys of
\* providerSpecificData are copied into the object that is persisted.
CheckCopilotToken ==
    /\ tokPc = "access_done"
    /\ tokPc' = "done"
    /\ IF /\ tokStored.provider = "github"
          /\ tokStored.providerSpecificData.copilotTokenExpiresAt # 0
          /\ tokStored.providerSpecificData.copilotTokenExpiresAt * UnitsPerSec - now
                < TOKEN_EXPIRY_BUFFER
       THEN \E cop \in CopilotTokenResults :
               IF cop.token # "null"
               THEN LET updatedSpecific ==
                            [tokStored.providerSpecificData EXCEPT
                                !.copilotToken = cop.token,
                                !.copilotTokenExpiresAt = cop.expiresAt]
                        n == [NoNew EXCEPT !.hasPsd = TRUE,
                                           !.providerSpecificData = updatedSpecific]
                    IN Persist(updateProviderCredentials(tokStored, n), n)
               ELSE UNCHANGED <<tokStored, tokBefore, tokResult>>
       ELSE UNCHANGED <<tokStored, tokBefore, tokResult>>
    /\ UNCHANGED <<routerVars, projectVars, auxVars, xlatVars>>

\* _refreshProjectId after a refreshed access token: the project id that
\* was fetched is persisted on its own.
RefreshProjectId ==
    /\ tokPc \in {"access_done", "done"}
    /\ tokStored.provider = "gemini-cli"
    /\ tokResult.accessToken # "null"
    /\ LET n == [NoNew EXCEPT !.projectId = "p1"]
       IN Persist(updateProviderCredentials(tokStored, n), n)
    /\ UNCHANGED tokPc
    /\ UNCHANGED <<routerVars, projectVars, auxVars, xlatVars>>

\* The combined GitHub and Copilot refresh, its result persisted with
\* updateProviderCredentials.
PersistCombined ==
    /\ tokPc = "idle"
    /\ tokStored.provider = "github"
    /\ tokStored.refreshToken # "null"
    /\ tokPc' = "done"
    /\ \E n \in refreshGitHubAndCopilotTokens(tokStored) :
           IF n # NoNew
           THEN Persist(updateProviderCredentials(tokStored, n), n)
           ELSE UNCHANGED <<tokStored, tokBefore, tokResult>>
    /\ UNCHANGED <<routerVars, projectVars, auxVars, xlatVars>>

\* onCredentialsRefreshed of the worker: the refresh result of the executor
\* is written by updateCredentials.
OnCredentialsRefreshed ==
    /\ tokPc = "idle"
    /\ tokPc' = "done"
    /\ \E n \in (IF tokStored.provider = "github"
                  THEN refreshCredentials(tokStored)
                  ELSE AccessResults(tokStored) \cup PartialResults) :
           IF n # NoNew
           THEN Persist(updateCredentialsFields(tokStored, n), n)
           ELSE UNCHANGED <<tokStored, tokBefore, tokResult>>
    /\ UNCHANGED <<routerVars, projectVars, auxVars, xlatVars>>

NextTok ==
    \/ CheckAccessToken
    \/ CheckCopilotToken
    \/ RefreshProjectId
    \/ PersistCombined
    \/ OnCredentialsRefreshed

SpecTok == InitTok /\ [][NextTok]_vars

\* ----------------------------------------------------------- projectId.js
\* The time the project-ID behaviours cover.
Horizon == 4200 * UnitsPerSec

\* The instants looked at: each run of the cleanup timer and the instant
\* PENDING_TTL_MS before it.
ProjInstants == {nextSweep - PENDING_TTL_MS, nextSweep}

InitProj ==
    /\ now = T0
    /\ events = 0
    /\ db = EmptyRec
    /\ heap = [i \in ObjIds |-> EmptyRec]
    /\ cache = NoCache
    /\ pc = [p \in Procs |-> "idle"]
    /\ obj = [p \in Procs |-> 0]
    /\ pending = [p \in Procs |-> EmptyRec]
    /\ cred = [r \in Reqs |-> NoCred]
    /\ exclude = [r \in Reqs |-> "-"]
    /\ lastStatus = [r \in Reqs |-> 0]
    /\ resp = [r \in Reqs |-> NoResp]
    /\ attempts = [r \in Reqs |-> <<>>]
    /\ marks = [r \in Reqs |-> <<>>]
    /\ successCalls = [r \in Reqs |-> <<>>]
    /\ syncBody = EmptyRec
    /\ TokenIdle
    /\ ProjectIdle
    /\ XlatIdle
    /\ AuxIdle

ProjFrame ==
    UNCHANGED <<routerVars, tokenVars, auxVars, xlatVars, removedUpTo, refreshCalls>>

\* The cached row is still fresh for getProjectIdForConnection.
FreshRow == projectIdCache.has /\ now - projectIdCache.fetchedAt < CACHE_TTL_MS

\* finally { pendingFetches.delete(connectionId) }: the row of the
\* connection is removed, whichever fetch put it there.
SettledPending(f) == NoPending

\* Fetch f returns res: a project id is cached, the promise settles and the
\* finally block runs.
Settle(f, res) ==
    /\ fetches' = [fetches EXCEPT ![f] = Settled]
    /\ projectIdCache' = IF res # "null"
                          THEN [has |-> TRUE, fetchedAt |-> now]
                          ELSE projectIdCache
    /\ pendingFetches' = SettledPending(f)

\* getProjectIdForConnection, called by _refreshProjectId (invalidate
\* first) or by an executor: a fresh row answers, a pending fetch is shared,
\* otherwise a new fetch starts with its own AbortController.
GetProjectIdOf(invalidate) ==
    /\ calls < MaxCalls
    /\ calls' = calls + 1
    /\ LET row == IF invalidate THEN NoRow ELSE projectIdCache
           fresh == row.has /\ now - row.fetchedAt < CACHE_TTL_MS
       IN /\ projectIdCache' = row
          /\ IF fresh
             THEN UNCHANGED <<pendingFetches, fetches>>
             ELSE IF pendingFetches.fetch # 0
                  THEN UNCHANGED <<pendingFetches, fetches>>
                  ELSE /\ fetches' = [fetches EXCEPT ![calls + 1] =
                                        [phase |-> "load", aborted |-> "no"]]
                       /\ pendingFetches' = [fetch |-> calls + 1, startedAt |-> now]
    /\ UNCHANGED <<nextSweep, upstreamConn>>

GetProjectId ==
    /\ \E invalidate \in BOOLEAN : GetProjectIdOf(invalidate)
    /\ ProjFrame

\* How a step of a fetch ends: with a project id, with null, or by going on
\* to its next step.
FetchOutcomes == {"p1", "null", "next"}

\* fetchProjectId: the loadCodeAssist call ends.  Aborted, it rejects; else
\* it yields a project id, fails, or hands over to onboardUser.
LoadRespondsOf(f, out) ==
    /\ fetches[f].phase = "load"
    /\ fetches[f].aborted # "no" => out = "null"
    /\ IF out = "next"
       THEN /\ fetches' = [fetches EXCEPT ![f].phase = "poll"]
            /\ UNCHANGED <<projectIdCache, pendingFetches>>
       ELSE Settle(f, out)
    /\ UNCHANGED <<calls, nextSweep, upstreamConn>>

LoadResponds(f) ==
    /\ \E out \in FetchOutcomes : LoadRespondsOf(f, out)
    /\ ProjFrame

\* onboardUser: the request of one attempt ends.  Aborted by the
\* connection's controller it returns null; answered, it returns the
\* project id, fails, or sleeps before the next attempt.  The attempt number
\* is not kept: giving up after the last attempt is the null result here and
\* in SleepEnds, and a timed-out attempt that is followed by another leaves
\* the fetch polling.
PollRespondsOf(f, out) ==
    /\ fetches[f].phase = "poll"
    /\ fetches[f].aborted # "no" => out = "null"
    /\ IF out = "next"
       THEN /\ fetches' = [fetches EXCEPT ![f].phase = "sleep"]
            /\ UNCHANGED <<projectIdCache, pendingFetches>>
       ELSE Settle(f, out)
    /\ UNCHANGED <<calls, nextSweep, upstreamConn>>

PollResponds(f) ==
    /\ \E out \in FetchOutcomes : PollRespondsOf(f, out)
    /\ ProjFrame

\* onboardUser: the 2 s wait ends and the loop goes on: it returns null
\* after the last attempt or when the signal is aborted.
SleepEndsOf(f, out) ==
    /\ fetches[f].phase = "sleep"
    /\ out # "p1"
    /\ fetches[f].aborted # "no" => out = "null"
    /\ IF out = "next"
       THEN /\ fetches' = [fetches EXCEPT ![f].phase = "poll"]
            /\ UNCHANGED <<projectIdCache, pendingFetches>>
       ELSE Settle(f, out)
    /\ UNCHANGED <<calls, nextSweep, upstreamConn>>

SleepEnds(f) ==
    /\ \E out \in FetchOutcomes : SleepEndsOf(f, out)
    /\ ProjFrame

\* controller.abort() of fetch f, noted with who called it.
Abort(fs, f, by) ==
    [fs EXCEPT ![f].aborted = IF @ = "no" /\ fs[f].phase # "settled" THEN by ELSE @]

\* removeConnection: the cache row is deleted, the pending fetch aborted and
\* its row deleted.
removeConnection ==
    /\ projectIdCache' = NoRow
    /\ IF pendingFetches.fetch # 0
       THEN /\ fetches' = Abort(fetches, pendingFetches.fetch, "remove")
            /\ pendingFetches' = NoPending
       ELSE UNCHANGED <<fetches, pendingFetches>>

\* releaseConnection(connectionId).
ReleaseConnectionBody ==
    /\ calls > 0
    /\ removeConnection
    /\ UNCHANGED <<calls, nextSweep, upstreamConn>>

ReleaseConnection ==
    /\ ReleaseConnectionBody
    /\ ProjFrame

\* An executor opens the upstream connection with the request's signal.
UpstreamOpen ==
    /\ upstreamConn = "none"
    /\ upstreamConn' = "open"
    /\ UNCHANGED <<projectIdCache, pendingFetches, fetches, calls, nextSweep>>
    /\ ProjFrame

\* The client aborts the request: the signal aborts the upstream fetch and
\* the connection's project-ID work is cancelled through removeConnection.
ClientAbort ==
    /\ upstreamConn = "open"
    /\ upstreamConn' = "aborted"
    /\ removeConnection
    /\ UNCHANGED <<calls, nextSweep>>
    /\ ProjFrame

\* cleanupNow without the abort of the fetches it removes.
SweepAbort_None(fs, f) == fs

\* cleanupNow aborts the controller of a pending fetch it removes.
SweepAbort(fs, f) == Abort(fs, f, "sweep")

\* cleanupNow, run by the interval timer.
Sweep ==
    /\ now = nextSweep
    /\ nextSweep' = nextSweep + CLEANUP_INTERVAL_MS
    /\ projectIdCache' = IF projectIdCache.has
                             /\ now - projectIdCache.fetchedAt >= CACHE_TTL_MS
                          THEN NoRow ELSE projectIdCache
    /\ IF pendingFetches.fetch # 0 /\ now - pendingFetches.startedAt > PENDING_TTL_MS
       THEN /\ fetches' = SweepAbort(fetches, pendingFetches.fetch)
            /\ pendingFetches' = NoPending
       ELSE UNCHANGED <<fetches, pendingFetches>>
    /\ UNCHANGED <<calls, upstreamConn>>
    /\ ProjFrame

\* Time passes, up to the next run of the cleanup timer.
TickProj ==
    /\ \E t \in ProjInstants :
          /\ t > now
          /\ t <= T0 + Horizon
          /\ now' = t
    /\ UNCHANGED <<events, db, heap, cache, pc, obj, pending, cred, exclude,
                   lastStatus, resp, attempts, marks, successCalls, syncBody>>
    /\ UNCHANGED <<tokenVars, projectVars, auxVars, xlatVars>>

NextProj ==
    \/ GetProjectId
    \/ \E f \in FetchIds : LoadResponds(f)
    \/ \E f \in FetchIds : PollResponds(f)
    \/ \E f \in FetchIds : SleepEnds(f)
    \/ ReleaseConnection
    \/ UpstreamOpen
    \/ ClientAbort
    \/ Sweep
    \/ TickProj

SpecProj == InitProj /\ [][NextProj]_vars

\* ------------------------------------------------- projectId.js: onboardUser
MAX_ATTEMPTS == 5
ATTEMPT_TIMEOUT == 30 * UnitsPerSec
POLL_DELAY == 2 * UnitsPerSec
\* How long the model follows a response body that does not arrive.
MaxWait == 2 * ATTEMPT_TIMEOUT
OnbSteps == {POLL_DELAY, ATTEMPT_TIMEOUT}
OnboardBodies == {"project", "doneNoProject", "notDone", "invalid"}

OnbFrame ==
    UNCHANGED <<routerVars, tokenVars, projectVars, ghVars, comboVars, sseVars,
                collapseVars, workerVars, toolVars,
                xlatVars>>

\* fetchProjectId has found no project and calls onboardUser: the first
\* attempt is under way, or the connection's signal was aborted before it.
InitOnb ==
    /\ RouterIdle
    /\ TokenIdle
    /\ ProjectIdle
    /\ XlatIdle
    /\ GhIdle
    /\ ComboIdle
    /\ SseIdle
    /\ CollapseIdle
    /\ WorkerIdle
    /\ ToolIdle
    /\ timer = 0
    /\ lastGap = Undef
    /\ \/ attempt = 1 /\ onbPc = "fetch"
       \/ attempt = 0 /\ onbPc = "null"

\* onboardUser returns or throws.
OnbEnds(how) ==
    /\ onbPc' = how
    /\ timer' = 0
    /\ UNCHANGED <<attempt, lastGap>>

\* The loop goes round: the next attempt starts gap after the last one
\* ended, unless that was the last attempt.
NextAttempt(gap) ==
    IF attempt = MAX_ATTEMPTS
    THEN OnbEnds("null")
    ELSE /\ attempt' = attempt + 1
         /\ onbPc' = "fetch"
         /\ timer' = 0
         /\ lastGap' = gap

\* The catch block for an error that is not an AbortError: null after the
\* last attempt, rethrown before it.
OnbError == OnbEnds(IF attempt = MAX_ATTEMPTS THEN "null" ELSE "thrown")

\* Time passes.  The 30 s timer bounds the wait for the response, the 2 s
\* timer the sleep; nothing bounds the reading of the body.
OnbTick ==
    /\ \E d \in OnbSteps :
          /\ timer' = timer + d
          /\ CASE onbPc = "fetch" -> timer' <= ATTEMPT_TIMEOUT
               [] onbPc = "body" -> timer' <= MaxWait
               [] onbPc \in {"sleep", "sleepAborted"} -> timer' <= POLL_DELAY
               [] OTHER -> FALSE
    /\ UNCHANGED <<attempt, onbPc, lastGap>>
    /\ OnbFrame

\* fetch resolves with the response's status and headers; clearTimeout.
HeadersArrive ==
    /\ onbPc = "fetch"
    /\ \E ok \in BOOLEAN :
          IF ok
          THEN /\ onbPc' = "body"
               /\ UNCHANGED <<attempt, timer, lastGap>>
          ELSE OnbError
    /\ OnbFrame

\* The 30 s timer aborts the attempt's controller: fetch rejects with an
\* AbortError and the loop continues.
AttemptTimesOut ==
    /\ onbPc = "fetch"
    /\ timer = ATTEMPT_TIMEOUT
    /\ NextAttempt(0)
    /\ OnbFrame

\* response.json() resolves or rejects.
BodyRead ==
    /\ onbPc = "body"
    /\ \E b \in OnboardBodies :
          CASE b = "project" -> OnbEnds("id")
            [] b = "notDone" -> /\ onbPc' = "sleep"
                                /\ timer' = 0
                                /\ UNCHANGED <<attempt, lastGap>>
            [] OTHER -> OnbError
    /\ OnbFrame

\* The 2 s sleep is over; the loop starts its next round by looking at the
\* connection's signal.
PollSleepEnds ==
    /\ onbPc \in {"sleep", "sleepAborted"}
    /\ timer = POLL_DELAY
    /\ IF onbPc = "sleepAborted" /\ attempt < MAX_ATTEMPTS
       THEN OnbEnds("null")
       ELSE NextAttempt(POLL_DELAY)
    /\ OnbFrame

\* The connection's AbortController is aborted: a pending fetch or body read
\* rejects with an AbortError and onboardUser returns null; a sleep goes on.
ExternalAbort ==
    /\ onbPc \in {"fetch", "body", "sleep"}
    /\ IF onbPc = "sleep"
       THEN /\ onbPc' = "sleepAborted"
            /\ UNCHANGED <<attempt, timer, lastGap>>
       ELSE OnbEnds("null")
    /\ OnbFrame

NextOnb ==
    \/ OnbTick
    \/ HeadersArrive
    \/ AttemptTimesOut
    \/ BodyRead
    \/ PollSleepEnds
    \/ ExternalAbort

SpecOnb == InitOnb /\ [][NextOnb]_vars

\* ------------------------------------------------ compact.js: handleComboChat
\* Models of the combo, in declared order.
ComboModels == <<"p/m1", "p/m2", "p/m3", "p/m4">>
\* What handleSingleModel does for a model: a Response with this status, or
\* a rejected promise.
Rejected == 0
ModelOutcomes == {200, 404, 429, 500, 503, Rejected}

NoComboResp == [status |-> 0, from |-> "none"]
models == SubSeq(ComboModels, 1, Len(comboOutcomes))

ComboFrame ==
    UNCHANGED <<routerVars, tokenVars, projectVars, onbVars, ghVars, sseVars,
                collapseVars, workerVars, toolVars,
                xlatVars>>

InitCombo ==
    /\ RouterIdle
    /\ TokenIdle
    /\ ProjectIdle
    /\ XlatIdle
    /\ OnbIdle
    /\ GhIdle
    /\ SseIdle
    /\ CollapseIdle
    /\ WorkerIdle
    /\ ToolIdle
    /\ \E n \in 1 .. MaxModels : comboOutcomes \in [1 .. n -> ModelOutcomes]
    /\ comboTried = <<>>
    /\ comboResp = NoComboResp

\* Response.ok
Ok(status) == status >= 200 /\ status <= 299

\* The loop returns the model's response.
ReturnsResult_OnlyOk(status) == Ok(status)
ReturnsResult(status) == Ok(status) \/ status < 500

\* One round of the loop: handleSingleModel is awaited for the next model;
\* its response is returned, or the loop goes on and, after the last model,
\* answers 503 itself.
TryModel ==
    /\ comboResp = NoComboResp
    /\ Len(comboTried) < Len(models)
    /\ LET i == Len(comboTried) + 1
           result == comboOutcomes[i]
       IN /\ comboTried' = Append(comboTried, models[i])
          /\ comboResp' =
                IF result = Rejected \/ ReturnsResult(result)
                THEN [status |-> result, from |-> models[i]]
                ELSE IF i = Len(models)
                THEN [status |-> SERVICE_UNAVAILABLE, from |-> "combo"]
                ELSE NoComboResp
    /\ UNCHANGED comboOutcomes
    /\ ComboFrame

NextCombo == TryModel

SpecCombo == InitCombo /\ [][NextCombo]_vars

\* ---------------------------------------------- GithubExecutor.execute
GhModels == {"gpt-4o", "gpt-5.1-codex"}
\* What /chat/completions answers: 200, the 400 whose body says that the
\* model is "not accessible via the /chat/completions endpoint", another 400.
ChatAnswers == {"ok", "notAccessible", "badRequest"}
Call(url) == [url |-> url, answer |-> "pending"]

GhFrame ==
    UNCHANGED <<routerVars, tokenVars, projectVars, onbVars, comboVars,
                sseVars, collapseVars, workerVars, toolVars,
                xlatVars>>

\* executors.github has just been constructed; the calls are still to come.
InitGh ==
    /\ RouterIdle
    /\ TokenIdle
    /\ ProjectIdle
    /\ XlatIdle
    /\ OnbIdle
    /\ ComboIdle
    /\ SseIdle
    /\ CollapseIdle
    /\ WorkerIdle
    /\ ToolIdle
    /\ knownCodexModels = {}
    /\ ghModel = [q \in GhReqs |-> "none"]
    /\ ghPc = [q \in GhReqs |-> "new"]
    /\ ghCalls = [q \in GhReqs |-> <<>>]

\* this.knownCodexModels.has(model)
UsesCachedRoute_Never(m) == FALSE
UsesCachedRoute(m) == m \in knownCodexModels

\* The last call of q has been answered.
Answered(q, a) ==
    [ghCalls EXCEPT ![q][Len(ghCalls[q])].answer = a]

\* execute() up to its first await: a known model goes to /responses, any
\* other to super.execute, which requests /chat/completions.
Execute(q) ==
    /\ ghPc[q] = "new"
    /\ \E m \in GhModels :
          /\ ghModel' = [ghModel EXCEPT ![q] = m]
          /\ IF UsesCachedRoute(m)
             THEN /\ ghPc' = [ghPc EXCEPT ![q] = "responses"]
                  /\ ghCalls' = [ghCalls EXCEPT ![q] = <<Call("/responses")>>]
             ELSE /\ ghPc' = [ghPc EXCEPT ![q] = "chat"]
                  /\ ghCalls' = [ghCalls EXCEPT ![q] = <<Call("/chat/completions")>>]
    /\ UNCHANGED knownCodexModels
    /\ GhFrame

\* super.execute resolves: on the 400 that names the endpoint the model is
\* remembered and the request is sent to /responses; any other result is
\* returned.
SuperExecuteResolves(q) ==
    /\ ghPc[q] = "chat"
    /\ \E a \in ChatAnswers :
          IF a = "notAccessible"
          THEN /\ knownCodexModels' = knownCodexModels \cup {ghModel[q]}
               /\ ghCalls' = [Answered(q, a) EXCEPT ![q] = Append(@, Call("/responses"))]
               /\ ghPc' = [ghPc EXCEPT ![q] = "responses"]
          ELSE /\ ghCalls' = Answered(q, a)
               /\ ghPc' = [ghPc EXCEPT ![q] = "done"]
               /\ UNCHANGED knownCodexModels
    /\ UNCHANGED ghModel
    /\ GhFrame

\* executeWithResponsesEndpoint returns the response of /responses.
ResponsesResolves(q) ==
    /\ ghPc[q] = "responses"
    /\ \E a \in {"ok", "badRequest"} :
          ghCalls' = Answered(q, a)
    /\ ghPc' = [ghPc EXCEPT ![q] = "done"]
    /\ UNCHANGED <<knownCodexModels, ghModel>>
    /\ GhFrame

NextGh ==
    \/ \E q \in GhReqs : Execute(q)
    \/ \E q \in GhReqs : SuperExecuteResolves(q)
    \/ \E q \in GhReqs : ResponsesResolves(q)

SpecGh == InitGh /\ [][NextGh]_vars

\* ------------------------- GithubExecutor.executeWithResponsesEndpoint
\* parseSSELine logs a data line that is not JSON when its data is shorter.
LOG_LIMIT == 1000
InvalidLengths == {LOG_LIMIT - 1, LOG_LIMIT, LOG_LIMIT + 25}
\* Lines of the body: an empty line, a line that is no data line (event:,
\* a comment), data: [DONE], a data line the translator turns into a chunk,
\* one it turns into nothing, and data lines that are not JSON.
UpLines ==
    {Line(k, 0) : k \in {"blank", "event", "done", "chunk", "silent"}}
        \cup {Line("invalid", n) : n \in InvalidLengths}

DoneFrame == "data: [DONE]"
ChunkFrame == "data: {chunk}"

\* parseSSELine: what it returns and whether it logs the line.
parseSSELine(line) ==
    CASE line.kind \in {"none", "blank", "event"} -> [parsed |-> "null", log |-> FALSE]
      [] line.kind = "done" -> [parsed |-> "done", log |-> FALSE]
      [] line.kind = "invalid" ->
            [parsed |-> "null", log |-> line.length > 0 /\ line.length < LOG_LIMIT]
      [] OTHER -> [parsed |-> line.kind, log |-> FALSE]

\* formatSSE(data, "openai")
formatSSE(data) == IF data = "done" THEN DoneFrame ELSE ChunkFrame

\* The frames transform() enqueues for a complete line.
TransformFrames(line) ==
    LET parsed == parseSSELine(line).parsed
    IN CASE parsed = "done" -> <<DoneFrame>>
         [] parsed = "chunk" -> <<formatSSE(parsed)>>
         [] OTHER -> <<>>

\* The frames flush() enqueues for what is left in the buffer.
FlushFrames(line) ==
    LET parsed == parseSSELine(line).parsed
    IN IF parsed = "chunk" THEN <<formatSSE(parsed)>> ELSE <<>>

Logs(line) == IF parseSSELine(line).log THEN <<line.length>> ELSE <<>>

SseFrame ==
    UNCHANGED <<routerVars, tokenVars, projectVars, onbVars, ghVars, comboVars,
                collapseVars, workerVars, toolVars,
                xlatVars>>

\* /responses has answered 200 and the transformed stream has been handed to
\* the caller; the body is still to come.
InitSse ==
    /\ RouterIdle
    /\ TokenIdle
    /\ ProjectIdle
    /\ XlatIdle
    /\ OnbIdle
    /\ GhIdle
    /\ ComboIdle
    /\ CollapseIdle
    /\ WorkerIdle
    /\ ToolIdle
    /\ \E n \in 0 .. MaxLines :
          \E ls \in [1 .. n -> UpLines], t \in (UpLines \ {Line("blank", 0)}) \cup {NoLine} :
             upstream = [lines |-> ls, tail |-> t, read |-> 0, state |-> "open"]
    /\ buffer = NoLine
    /\ down = <<>>
    /\ downState = "open"
    /\ clientStream \in BOOLEAN
    /\ logged = <<>>

\* transform(): a chunk that completes the next line arrives.
Transform ==
    /\ upstream.state = "open"
    /\ upstream.read < Len(upstream.lines)
    /\ LET line == upstream.lines[upstream.read + 1]
       IN /\ down' = down \o TransformFrames(line)
          /\ logged' = logged \o Logs(line)
    /\ upstream' = [upstream EXCEPT !.read = @ + 1]
    /\ UNCHANGED <<buffer, downState, clientStream>>
    /\ SseFrame

\* transform(): the last chunk ends without a line feed and stays in buffer.
TransformTail ==
    /\ upstream.state = "open"
    /\ upstream.read = Len(upstream.lines)
    /\ upstream.tail # NoLine
    /\ buffer = NoLine
    /\ buffer' = upstream.tail
    /\ UNCHANGED <<upstream, down, downState, clientStream, logged>>
    /\ SseFrame

\* The body ends: flush() handles the buffer and the stream closes.
Flush ==
    /\ upstream.state = "open"
    /\ upstream.read = Len(upstream.lines)
    /\ buffer = upstream.tail
    /\ upstream' = [upstream EXCEPT !.state = "ended"]
    /\ down' = down \o FlushFrames(buffer)
    /\ logged' = logged \o Logs(buffer)
    /\ downState' = "closed"
    /\ UNCHANGED <<buffer, clientStream>>
    /\ SseFrame

\* Reading the body fails: pipeThrough errors the transformed stream.
UpstreamFails ==
    /\ upstream.state = "open"
    /\ upstream' = [upstream EXCEPT !.state = "failed"]
    /\ downState' = "errored"
    /\ UNCHANGED <<buffer, down, clientStream, logged>>
    /\ SseFrame

NextSse ==
    \/ Transform
    \/ TransformTail
    \/ Flush
    \/ UpstreamFails

SpecSse == InitSse /\ [][NextSse]_vars

\* ------------------------------- iflow.js: convertResponsesStreamToJson
\* SSE messages of a Responses stream: response.output_item.done with its
\* output_index (Undef when the field is absent) and item ("null" when the
\* field is absent), response.completed, response.failed, and a message
\* processSSEMessage ignores (no event line, [DONE], data that is not JSON).
Items == {"a", "b"}
Indexes == 0 .. 2
Msg(event, index, item) == [event |-> event, output_index |-> index, item |-> item]
ItemMsgs ==
    {Msg("response.output_item.done", i, it) :
        i \in Indexes \cup {Undef}, it \in Items \cup {"null"}}
SseMsgs ==
    ItemMsgs \cup {Msg(e, Undef, "null") :
                      e \in {"response.completed", "response.failed", "ignored"}}

EmptyMessage == "{type: message, content: [], role: assistant}"
NoCollapse == [status |-> "none", output |-> <<>>]
\* state of convertResponsesStreamToJson; items is the Map, a function from
\* its keys to its values.
NewState == [status |-> "in_progress", items |-> <<>>]

\* Key under which an item is stored.
ItemKey_Arrival(msg, items) == Cardinality(DOMAIN items)
ItemKey(msg, items) == IF msg.output_index = Undef THEN 0 ELSE msg.output_index

MapSet(m, k, v) == [x \in DOMAIN m \cup {k} |-> IF x = k THEN v ELSE m[x]]

processSSEMessage(msg, state) ==
    CASE msg.event = "response.output_item.done" ->
            [state EXCEPT !.items = MapSet(@, ItemKey(msg, @), msg.item)]
      [] msg.event = "response.completed" -> [state EXCEPT !.status = "completed"]
      [] msg.event = "response.failed" -> [state EXCEPT !.status = "failed"]
      [] OTHER -> state

RECURSIVE Accumulate(_, _)
Accumulate(msgs, state) ==
    IF msgs = <<>> THEN state
    ELSE Accumulate(Tail(msgs), processSSEMessage(Head(msgs), state))

MaxKey(keys) == CHOOSE k \in keys : \A j \in keys : j <= k

convertResponsesStreamToJson(msgs) ==
    LET state == Accumulate(msgs, NewState)
        keys == DOMAIN state.items
        maxIndex == IF keys # {} THEN MaxKey(keys) ELSE Undef
    IN [status |-> state.status,
        output |-> [p \in 1 .. (maxIndex + 1) |->
                       IF p - 1 \in keys /\ state.items[p - 1] # "null"
                       THEN state.items[p - 1]
                       ELSE EmptyMessage]]

CollapseFrame ==
    UNCHANGED <<routerVars, tokenVars, projectVars, onbVars, ghVars, comboVars,
                sseVars, workerVars, toolVars,
                xlatVars>>

InitCollapse ==
    /\ RouterIdle
    /\ TokenIdle
    /\ ProjectIdle
    /\ XlatIdle
    /\ OnbIdle
    /\ GhIdle
    /\ ComboIdle
    /\ SseIdle
    /\ WorkerIdle
    /\ ToolIdle
    /\ \E n \in 0 .. MaxMsgs : sseMessages \in [1 .. n -> SseMsgs]
    /\ collapsed = NoCollapse

Collapse ==
    /\ collapsed = NoCollapse
    /\ collapsed' = convertResponsesStreamToJson(sseMessages)
    /\ UNCHANGED sseMessages
    /\ CollapseFrame

NextCollapse == Collapse

SpecCollapse == InitCollapse /\ [][NextCollapse]_vars

\* ------------------------------------------ GithubExecutor.sanitizeTools
MAX_TOOLS == 128
MAX_NAME_LENGTH == 64

\* A function name: the text id cut to len characters, with white space
\* around it when pad; badAt is the position of the first character of the
\* text that the name rule does not allow at that place (0: there is none).
Name(id, len, badAt, pad) == [id |-> id, len |-> len, badAt |-> badAt, pad |-> pad]
NoName == Name(0, 0, 0, FALSE)
\* A tool: its type, whether it has a function object, and function.name.
Tool(type, fn, name) == [type |-> type, function |-> fn, name |-> name]

\* tools.length of the arrays that are tried: a run of n distinct valid
\* function tools followed by up to MaxTail tools of any kind.
PrefixSizes == {0, MAX_TOOLS - 1, MAX_TOOLS}
Gen(n) == [i \in 1 .. n |-> Tool("function", TRUE, Name(i, MAX_NAME_LENGTH, 0, FALSE))]
\* Names of the tail: a text of its own, and the name of the first tool of
\* the run once more.
TailNames ==
    {n \in {Name(0, len, badAt, pad) :
               len \in {0, MAX_NAME_LENGTH, MAX_NAME_LENGTH + 1},
               badAt \in {0, 1, MAX_NAME_LENGTH + 1},
               pad \in BOOLEAN} : n.badAt <= n.len}
        \cup {Name(1, MAX_NAME_LENGTH, 0, FALSE)}
TailTools ==
    {Tool("function", TRUE, n) : n \in TailNames}
        \cup {Tool("function", FALSE, NoName), Tool("custom", FALSE, NoName)}

NotSanitized == <<Tool("none", FALSE, NoName)>>

\* String(name || "").trim()
Trim(name) == [name EXCEPT !.pad = FALSE]

\* name.slice(0, MAX_NAME_LENGTH) when the name is longer
Truncate_None(name) == name
Truncate(name) ==
    IF name.len > MAX_NAME_LENGTH THEN [name EXCEPT !.len = MAX_NAME_LENGTH] ELSE name

\* nameRegex.test(name): /^[A-Za-z_][A-Za-z0-9_.:-]*$/
nameRegex_ShortOnly(name) ==
    /\ ~name.pad
    /\ name.len >= 1
    /\ name.len < MAX_NAME_LENGTH
    /\ name.badAt = 0 \/ name.badAt > name.len
nameRegex(name) ==
    /\ ~name.pad
    /\ name.len >= 1
    /\ name.badAt = 0 \/ name.badAt > name.len

\* One round of the loop over tools; st holds seen and out.  Once out is
\* full the loop has ended and nothing more is done.
SanitizeStep(tool, st) ==
    LET name == Truncate(Trim(tool.name))
        \* the same text: equal up to the characters kept
        key == [id |-> name.id, len |-> name.len]
    IN IF Len(st.out) >= MAX_TOOLS THEN st
       ELSE IF tool.type = "function" /\ tool.function
       THEN IF ~nameRegex(name) \/ key \in st.seen
            THEN st
            ELSE [seen |-> st.seen \cup {key},
                  out |-> Append(st.out, [tool EXCEPT !.name = name])]
       ELSE [st EXCEPT !.out = Append(@, tool)]

\* The loop applied to ts[lo], ..., ts[hi] in this order: the rounds for
\* the first half are done before those for the second half.
RECURSIVE SanitizeLoop(_, _, _, _)
SanitizeLoop(ts, lo, hi, st) ==
    CASE lo > hi -> st
      [] lo = hi -> SanitizeStep(ts[lo], st)
      [] OTHER -> LET mid == (lo + hi) \div 2
                      first == SanitizeLoop(ts, lo, mid, st)
                  IN IF Len(first.out) <= MAX_TOOLS
                     THEN SanitizeLoop(ts, mid + 1, hi, first)
                     ELSE first

sanitizeTools(ts) ==
    IF ts = <<>> THEN ts
    ELSE SanitizeLoop(ts, 1, Len(ts), [seen |-> {}, out |-> <<>>]).out

ToolFrame ==
    UNCHANGED <<routerVars, tokenVars, projectVars, onbVars, ghVars, comboVars,
                sseVars, collapseVars, workerVars,
                xlatVars>>

InitTools ==
    /\ RouterIdle
    /\ TokenIdle
    /\ ProjectIdle
    /\ XlatIdle
    /\ OnbIdle
    /\ GhIdle
    /\ ComboIdle
    /\ SseIdle
    /\ CollapseIdle
    /\ WorkerIdle
    /\ \E n \in PrefixSizes, k \in 0 .. MaxTail :
          \E tl \in [1 .. k -> TailTools] : tools = Gen(n) \o tl
    /\ sanitized = NotSanitized

\* transformRequest: body.tools is replaced by sanitizeTools(body.tools).
SanitizeTools ==
    /\ sanitized = NotSanitized
    /\ sanitized' = sanitizeTools(tools)
    /\ UNCHANGED tools
    /\ ToolFrame

NextTools == SanitizeTools

SpecTools == InitTools /\ [][NextTools]_vars

\* ------------------------------------------------- worker.fetch (cloud)
UNAUTHORIZED == 401
NOT_FOUND == 404
INTERNAL_ERROR == 500
Methods == {"OPTIONS", "GET", "POST"}
Routes == {"/api/pricing", "/health", "/sync/m1", "/v1/chat/completions",
           "/v1/responses", "/v1/embeddings", "/m1/v1/embeddings",
           "/m1/v1/chat/completions", "/nowhere"}
\* Routes whose handler's response passes through addCorsHeaders.
CorsRoutes == {"/api/pricing", "/v1/chat/completions", "/v1/embeddings",
               "/m1/v1/embeddings"}

\* API keys: of machine m1 in new format, in old format (no machine id),
\* and one that parseApiKey cannot parse.
Keys == {"sk-m1-valid", "sk-m1-unknown", "sk-old-valid", "sk-old-unknown",
         "sk-malformed"}
Header(scheme, key) == [scheme |-> scheme, key |-> key]
AuthHeaders ==
    {Header("none", "null"), Header("Basic", "null")}
        \cup {Header("Bearer", k) : k \in Keys}

\* A request with what the worker finds when it serves it: whether the
\* machine m1 has a record, whether checkAuth lets it pass, whether its body
\* is a valid embeddings request.
WorkerRequests ==
    [method : Methods, path : Routes, Authorization : AuthHeaders,
     machine : BOOLEAN, dashboardAuth : BOOLEAN, bodyOk : BOOLEAN]
NoRequest ==
    [method |-> "none", path |-> "none", Authorization |-> Header("none", "null"),
     machine |-> FALSE, dashboardAuth |-> FALSE, bodyOk |-> FALSE]

\* A response: status, whether it carries Access-Control-Allow-Origin: *,
\* and how far the request had come when it was made.
Resp(status, cors, stage) == [status |-> status, cors |-> cors, stage |-> stage]
NoWResp == Resp(0, FALSE, "none")

\* extractBearerToken
extractBearerToken(req) ==
    IF req.Authorization.scheme = "Bearer" THEN req.Authorization.key ELSE "null"

\* parseApiKey
parseApiKey(key) ==
    CASE key \in {"sk-m1-valid", "sk-m1-unknown"} -> [isNewFormat |-> TRUE, machineId |-> "m1"]
      [] key \in {"sk-old-valid", "sk-old-unknown"} -> [isNewFormat |-> FALSE, machineId |-> "null"]
      [] OTHER -> [isNewFormat |-> FALSE, machineId |-> "unparsed"]

\* data?.apiKeys of the record getMachineData returns for the machine.
apiKeys(req, machineId) ==
    IF req.machine /\ machineId = "m1" THEN {"sk-m1-valid", "sk-old-valid"} ELSE {}

validateApiKey_AnyBearer(req, machineId) == req.Authorization.scheme = "Bearer"
validateApiKey(req, machineId) ==
    /\ req.Authorization.scheme = "Bearer"
    /\ req.Authorization.key \in apiKeys(req, machineId)

\* handleEmbeddings up to the body: the status of the error it answers, 0
\* when the request is let through.
EmbeddingsAuth(req, machineIdOverride) ==
    LET apiKey == extractBearerToken(req)
        parsed == parseApiKey(apiKey)
        machineId == IF machineIdOverride # "null" THEN machineIdOverride
                     ELSE parsed.machineId
    IN IF req.method = "OPTIONS" THEN 200
       ELSE IF machineIdOverride = "null" /\ apiKey = "null" THEN UNAUTHORIZED
       ELSE IF machineIdOverride = "null" /\ parsed.machineId = "unparsed"
       THEN UNAUTHORIZED
       ELSE IF machineIdOverride = "null"
                /\ (~parsed.isNewFormat \/ parsed.machineId = "null")
       THEN BAD_REQUEST
       ELSE IF ~validateApiKey(req, machineId) THEN UNAUTHORIZED
       ELSE 0

\* addCorsHeaders where the route applies it.
Routed(req, response) ==
    IF req.path \in CorsRoutes THEN [response EXCEPT !.cors = TRUE] ELSE response

\* checkAuth: whether the route asks for it and the request fails it.
Protected(req) ==
    \/ req.path = "/api/pricing"
    \/ req.path = "/sync/m1" /\ req.method \in {"GET", "POST"}

\* The route has a handler for the method.
Handled(req) ==
    \/ req.path \in {"/api/pricing"}
    \/ req.path = "/sync/m1" /\ req.method \in {"GET", "POST"}
    \/ req.path \notin {"/health", "/nowhere", "/api/pricing", "/sync/m1"}
          /\ req.method = "POST"

IsEmbeddings(req) == req.path \in {"/v1/embeddings", "/m1/v1/embeddings"}
MachineIdOverride(req) == IF req.path = "/m1/v1/embeddings" THEN "m1" ELSE "null"

WorkerFrame ==
    UNCHANGED <<routerVars, tokenVars, projectVars, onbVars, ghVars, comboVars,
                sseVars, collapseVars, toolVars,
                xlatVars>>

InitWorker ==
    /\ RouterIdle
    /\ TokenIdle
    /\ ProjectIdle
    /\ XlatIdle
    /\ OnbIdle
    /\ GhIdle
    /\ ComboIdle
    /\ SseIdle
    /\ CollapseIdle
    /\ ToolIdle
    /\ wReq \in WorkerRequests
    /\ wPc = "new"
    /\ wResp = NoWResp

Responds(response) ==
    /\ wResp' = response
    /\ wPc' = "done"
    /\ UNCHANGED wReq

Goes(to) ==
    /\ wPc' = to
    /\ UNCHANGED <<wReq, wResp>>

\* worker.fetch up to the handler: the preflight, checkAuth, /health and
\* 404 are answered here.
Fetch ==
    /\ wPc = "new"
    /\ IF wReq.method = "OPTIONS"
       THEN Responds(Resp(200, TRUE, "router"))
       ELSE IF Protected(wReq) /\ ~wReq.dashboardAuth
       THEN Responds(Resp(UNAUTHORIZED, FALSE, "router"))
       ELSE IF wReq.path = "/health" /\ wReq.method = "GET"
       THEN Responds(Resp(200, FALSE, "router"))
       ELSE IF Handled(wReq)
       THEN Goes(IF IsEmbeddings(wReq) THEN "embeddings" ELSE "handler")
       ELSE Responds(Resp(NOT_FOUND, FALSE, "router"))
    /\ WorkerFrame

\* handleEmbeddings: machine id and API key.
EmbeddingsKey ==
    /\ wPc = "embeddings"
    /\ LET status == EmbeddingsAuth(wReq, MachineIdOverride(wReq))
       IN IF status = 0
          THEN Goes("body")
          ELSE Responds(Routed(wReq, Resp(status, TRUE, "key")))
    /\ WorkerFrame

\* handleEmbeddings: body, model and input.
EmbeddingsBody ==
    /\ wPc = "body"
    /\ IF wReq.bodyOk
       THEN Goes("selection")
       ELSE Responds(Routed(wReq, Resp(BAD_REQUEST, TRUE, "body")))
    /\ WorkerFrame

\* handleEmbeddings: getProviderCredentials and the upstream calls of the
\* fallback loop, down to its response.
EmbeddingsLoop ==
    /\ wPc = "selection"
    /\ \E status \in UpstreamStatuses \cup {SERVICE_UNAVAILABLE}, cors \in BOOLEAN :
          Responds(Routed(wReq, Resp(status, cors, "selection")))
    /\ WorkerFrame

\* Any other handler returns a response, or throws and the router answers
\* 500.
HandlerResponds ==
    /\ wPc = "handler"
    /\ \/ \E status \in {200, UNAUTHORIZED, INTERNAL_ERROR}, cors \in BOOLEAN :
             Responds(Routed(wReq, Resp(status, cors, "handler")))
       \/ Responds(Resp(INTERNAL_ERROR, FALSE, "router"))
    /\ WorkerFrame

NextWorker ==
    \/ Fetch
    \/ EmbeddingsKey
    \/ EmbeddingsBody
    \/ EmbeddingsLoop
    \/ HandlerResponds

SpecWorker == InitWorker /\ [][NextWorker]_vars

\* ---------------------------- geminiHelper.js: cleanJSONSchemaForAntigravity
UNSUPPORTED_SCHEMA_CONSTRAINTS ==
    {"minLength", "maxLength", "exclusiveMinimum", "exclusiveMaximum",
     "pattern", "minItems", "maxItems", "format",
     "default", "examples",
     "$schema", "$defs", "definitions", "const", "$ref",
     "additionalProperties", "propertyNames", "patternProperties",
     "anyOf", "oneOf", "allOf", "not",
     "dependencies", "dependentSchemas", "dependentRequired",
     "title", "if", "then", "else", "contentMediaType", "contentEncoding"}

\* A JSON value is a tree: a function from the paths of its nodes (the keys
\* and array indexes that lead to the node) to "{}" for an object, "[]" for
\* an array, and the text of a string.
Leaf(v) == [p \in {<<>>} |-> v]
Node(label, kids) ==
    [p \in {<<>>} \cup UNION {{<<k>> \o q : q \in DOMAIN kids[k]} : k \in DOMAIN kids}
        |-> IF p = <<>> THEN label ELSE kids[p[1]][Tail(p)]]
KeysOf(t) == {p[1] : p \in {q \in DOMAIN t : Len(q) = 1}}
Child(t, k) ==
    [p \in {Tail(q) : q \in {r \in DOMAIN t : Len(r) >= 1 /\ r[1] = k}}
        |-> t[<<k>> \o p]]
Kids(t) == [k \in KeysOf(t) |-> Child(t, k)]
\* Array indexes as keys, in the order of the array.
Idx == <<"0", "1", "2">>
Obj(kids) == Node("{}", kids)
Arr(elements) ==
    Node("[]", [k \in {Idx[i] : i \in 1 .. Len(elements)}
                   |-> elements[CHOOSE i \in 1 .. Len(elements) : Idx[i] = k]])
Elements(t) == [i \in 1 .. Cardinality(KeysOf(t)) |-> Child(t, Idx[i])]
Put(kids, k, t) == [x \in DOMAIN kids \cup {k} |-> IF x = k THEN t ELSE kids[x]]
Del(kids, k) == [x \in DOMAIN kids \ {k} |-> kids[x]]

\* typeof value === "object", Array.isArray(value)
IsObject(t) == t[<<>>] \in {"{}", "[]"}
IsArray(t) == t[<<>>] = "[]"

NotCleaned == Leaf("none")

\* schema.anyOf.find(s => s.type !== "null" && s.type !== null): the place
\* of the first such element, 0 when there is none.
FindNonNull(alternatives) ==
    LET els == Elements(alternatives)
        I == {i \in 1 .. Len(els) :
                ~(<<"type">> \in DOMAIN els[i] /\ els[i][<<"type">>] = "null")}
    IN IF I = {} THEN 0 ELSE CHOOSE i \in I : \A j \in I : i <= j

\* The branch is taken for this keyword.
Flattens(t, keyword) ==
    /\ keyword \in KeysOf(t)
    /\ IsArray(Child(t, keyword))
    /\ FindNonNull(Child(t, keyword)) # 0

\* baseSchema: the alternative, overwritten with the properties of the
\* parent that are not unsupported.
BaseSchema(t, keyword) ==
    LET alternatives == Child(t, keyword)
        nonNullSchema == Elements(alternatives)[FindNonNull(alternatives)]
        own == KeysOf(t) \ UNSUPPORTED_SCHEMA_CONSTRAINTS
    IN Obj([k \in own \cup KeysOf(nonNullSchema)
               |-> IF k \in own THEN Child(t, k) ELSE Child(nonNullSchema, k)])

\* value && typeof value === "object": the value is cleaned in its turn.
Descend_NoArrays(value) == IsObject(value) /\ ~IsArray(value)
Descend(value) == IsObject(value)

\* value.find(t => t !== "null") || "string"
NonNullType(value) ==
    LET els == Elements(value)
        I == {i \in 1 .. Len(els) : els[i] # Leaf("null")}
    IN IF I = {} THEN Leaf("string")
       ELSE els[CHOOSE i \in I : \A j \in I : i <= j]

\* "Cleanup required fields": only the fields that properties has are kept.
CleanRequired(kids) ==
    IF /\ "required" \in DOMAIN kids
       /\ IsArray(kids["required"])
       /\ "properties" \in DOMAIN kids
    THEN LET Has(field) == IsObject(kids["properties"])
                              /\ ~IsObject(field)
                              /\ field[<<>>] \in KeysOf(kids["properties"])
             validRequired == SelectSeq(Elements(kids["required"]), Has)
         IN IF validRequired = <<>>
            THEN Del(kids, "required")
            ELSE Put(kids, "required", Arr(validRequired))
    ELSE kids

\* "Add placeholder for empty object schemas"
Placeholder(kids) ==
    IF /\ "type" \in DOMAIN kids
       /\ kids["type"] = Leaf("object")
       /\ \/ "properties" \notin DOMAIN kids
          \/ KeysOf(kids["properties"]) = {}
    THEN Put(Put(kids, "properties",
                 Obj([k \in {"reason"} |->
                        Obj([f \in {"type", "description"} |->
                               IF f = "type" THEN Leaf("string")
                               ELSE Leaf("Brief explanation")])])),
             "required", Arr(<<Leaf("reason")>>))
    ELSE kids

RECURSIVE cleanJSONSchemaForAntigravity(_)
cleanJSONSchemaForAntigravity(t) ==
    IF ~IsObject(t) THEN t
    ELSE IF Flattens(t, "anyOf")
    THEN cleanJSONSchemaForAntigravity(BaseSchema(t, "anyOf"))
    ELSE IF Flattens(t, "oneOf")
    THEN cleanJSONSchemaForAntigravity(BaseSchema(t, "oneOf"))
    ELSE LET kept == [k \in KeysOf(t) \ UNSUPPORTED_SCHEMA_CONSTRAINTS |->
                        LET value == Child(t, k)
                        IN IF k = "type" /\ IsArray(value)
                           THEN NonNullType(value)
                           ELSE IF Descend(value)
                           THEN cleanJSONSchemaForAntigravity(value)
                           ELSE value]
         IN Node(t[<<>>], Placeholder(CleanRequired(kept)))

\* The schemas that are tried.  Schemas without a schema inside:
LeafSchemas ==
    {Obj(<<>>),
     Obj([k \in {"type"} |-> Leaf("null")]),
     Obj([k \in {"type", "title"} |-> Leaf(IF k = "type" THEN "string" ELSE "x")]),
     Obj([k \in {"type"} |-> Leaf("object")]),
     Obj([k \in {"type", "format"} |->
            IF k = "type" THEN Arr(<<Leaf("null"), Leaf("string")>>) ELSE Leaf("x")]),
     Obj([k \in {"type", "properties", "required"} |->
            CASE k = "type" -> Leaf("object")
              [] k = "properties" ->
                    Obj([f \in {"format"} |-> Obj([g \in {"type"} |-> Leaf("string")])])
              [] k = "required" -> Arr(<<Leaf("format"), Leaf("q")>>)])}

\* Schemas built around a schema a, one for each way a schema can hold
\* another one.
Around(a) ==
    {Obj([k \in {"anyOf", "title", "description"} |->
            IF k = "anyOf" THEN Arr(<<Obj([g \in {"type"} |-> Leaf("null")]), a>>)
            ELSE Leaf("t")]),
     Obj([k \in {"oneOf", "default"} |->
            IF k = "oneOf" THEN Arr(<<a>>) ELSE Leaf("x")]),
     Obj([k \in {"type", "properties", "required"} |->
            CASE k = "type" -> Leaf("object")
              [] k = "properties" -> Obj([f \in {"p"} |-> a])
              [] k = "required" -> Arr(<<Leaf("p"), Leaf("q")>>)]),
     Obj([k \in {"type", "items", "minItems"} |->
            CASE k = "type" -> Leaf("array")
              [] k = "items" -> Arr(<<a>>)
              [] k = "minItems" -> Leaf("1")]),
     Obj([k \in {"$defs", "type"} |->
            IF k = "$defs" THEN Obj([f \in {"d"} |-> a]) ELSE Leaf("string")]),
     Obj([k \in {"anyOf"} |-> a]),
     Obj([k \in {"anyOf", "not", "nullable"} |->
            CASE k = "anyOf" -> Arr(<<Obj([g \in {"type"} |-> Leaf("null")])>>)
              [] k = "not" -> a
              [] k = "nullable" -> Leaf("true")])}

RECURSIVE Schemas(_)
Schemas(depth) ==
    IF depth = 0 THEN LeafSchemas
    ELSE LeafSchemas \cup UNION {Around(a) : a \in Schemas(depth - 1)}

\* Everything but the translator helpers is idle.
GatewayIdle ==
    /\ RouterIdle
    /\ TokenIdle
    /\ ProjectIdle
    /\ AuxIdle

CleanFrame ==
    UNCHANGED <<routerVars, tokenVars, projectVars, auxVars, convVars,
                maxTokVars>>

InitClean ==
    /\ GatewayIdle
    /\ ConvIdle
    /\ MaxTokIdle
    /\ schema \in Schemas(MaxDepth)
    /\ cleaned = NotCleaned

\* A tool's parameters are cleaned for Antigravity.
Clean ==
    /\ cleaned = NotCleaned
    /\ cleaned' = cleanJSONSchemaForAntigravity(schema)
    /\ UNCHANGED schema
    /\ CleanFrame

NextClean == Clean

SpecClean == InitClean /\ [][NextClean]_vars

\* ------------------------------------- openai-to-cursor: convertMessages
\* A tool call of an assistant turn, and the messages of a conversation:
\* calls are the tool_calls (style "openai") or the tool_use blocks (style
\* "claude") of an assistant message, results the tool_call_id of a tool
\* message or the tool_use_id of the tool_result blocks of a user message,
\* text whether the message has text of its own.
ToolCall(id, name) == [id |-> id, name |-> name]
ChatMsg(role, style, text, cs, results) ==
    [role |-> role, style |-> style, text |-> text, calls |-> cs, results |-> results]
TwoCalls == <<ToolCall("c1", "read"), ToolCall("c2", "write")>>
ChatMsgs ==
    {ChatMsg("system", "openai", TRUE, <<>>, <<>>),
     ChatMsg("user", "openai", TRUE, <<>>, <<>>),
     ChatMsg("user", "claude", FALSE, <<>>, <<"c1">>),
     ChatMsg("user", "claude", TRUE, <<>>, <<"c1", "c2">>),
     ChatMsg("tool", "openai", TRUE, <<>>, <<"c1">>),
     ChatMsg("tool", "openai", TRUE, <<>>, <<"c2">>),
     ChatMsg("assistant", "openai", TRUE, <<>>, <<>>),
     ChatMsg("assistant", "openai", FALSE, <<>>, <<>>),
     ChatMsg("assistant", "openai", FALSE, <<ToolCall("c1", "read")>>, <<>>),
     ChatMsg("assistant", "openai", TRUE, TwoCalls, <<>>),
     ChatMsg("assistant", "claude", FALSE, TwoCalls, <<>>)}

\* A message of the result: its role, whether it has text, its tool_calls,
\* the <tool_result> wrappers of its content with the tool name each one
\* carries, and the message it was made from.
OutMsg(role, text, cs, wrapped, from) ==
    [role |-> role, text |-> text, calls |-> cs, wrapped |-> wrapped, from |-> from]
Wrapped(id, name) == [id |-> id, name |-> name]
NotConverted == <<OutMsg("none", FALSE, <<>>, <<>>, 0)>>

\* getToolNameMap(prevMsg)[toolCallId] || ""
getToolNameMap(result, toolCallId) ==
    IF result = <<>> THEN ""
    ELSE LET prevMsg == result[Len(result)]
             K == {k \in 1 .. Len(prevMsg.calls) : prevMsg.calls[k].id = toolCallId}
         IN IF K = {} THEN ""
            ELSE prevMsg.calls[CHOOSE k \in K : \A j \in K : j <= k].name

\* One round of the loop of convertMessages, for messages[i].
ConvertStep(msg, i, result) ==
    IF msg.role = "system"
    THEN Append(result, OutMsg("user", TRUE, <<>>, <<>>, i))
    ELSE IF msg.role = "user"
    THEN Append(result,
                OutMsg("user", msg.text, <<>>,
                       [k \in 1 .. Len(msg.results) |->
                          Wrapped(msg.results[k],
                                  getToolNameMap(result, msg.results[k]))],
                       i))
    ELSE IF msg.role = "tool"
    THEN Append(result,
                OutMsg("user", FALSE, <<>>,
                       <<Wrapped(msg.results[1],
                                 getToolNameMap(result, msg.results[1]))>>,
                       i))
    ELSE IF msg.calls # <<>>
    THEN Append(result, OutMsg("assistant", msg.text, msg.calls, <<>>, i))
    ELSE IF msg.text
    THEN Append(result, OutMsg("assistant", TRUE, <<>>, <<>>, i))
    ELSE result

RECURSIVE ConvertLoop(_, _, _)
ConvertLoop(messages, i, result) ==
    IF i > Len(messages) THEN result
    ELSE ConvertLoop(messages, i + 1, ConvertStep(messages[i], i, result))

convertMessages(messages) == ConvertLoop(messages, 1, <<>>)

ConvFrame ==
    UNCHANGED <<routerVars, tokenVars, projectVars, auxVars, cleanVars,
                maxTokVars>>

InitConv ==
    /\ GatewayIdle
    /\ CleanIdle
    /\ MaxTokIdle
    /\ \E n \in 0 .. MaxTurns : chat \in [1 .. n -> ChatMsgs]
    /\ converted = NotConverted

\* buildCursorRequest: body.messages is replaced by its conversion.
BuildCursorRequest ==
    /\ converted = NotConverted
    /\ converted' = convertMessages(chat)
    /\ UNCHANGED chat
    /\ ConvFrame

NextConv == BuildCursorRequest

SpecConv == InitConv /\ [][NextConv]_vars

\* ------------------------------------- maxTokensHelper.js: adjustMaxTokens
\* A request body as adjustMaxTokens reads it: max_tokens and
\* thinking.budget_tokens (0 when absent), whether tools is an array that
\* is not empty, and the two defaults of config/constants.js, whose values
\* the function does not depend on.
Bodies ==
    [max_tokens : 0 .. MaxTokens, budget_tokens : 0 .. MaxTokens, tools : BOOLEAN,
     DEFAULT_MAX_TOKENS : {MaxTokens - 2, MaxTokens - 1},
     DEFAULT_MIN_TOKENS : {1, MaxTokens - 2}]
NotAdjusted == 0 - 1

adjustMaxTokens(body) ==
    LET requested == IF body.max_tokens # 0 THEN body.max_tokens
                     ELSE body.DEFAULT_MAX_TOKENS
        forTools == IF body.tools /\ requested < body.DEFAULT_MIN_TOKENS
                    THEN body.DEFAULT_MIN_TOKENS
                    ELSE requested
    IN IF body.budget_tokens # 0 /\ forTools <= body.budget_tokens
       THEN body.DEFAULT_MAX_TOKENS
       ELSE forTools

MaxTokFrame ==
    UNCHANGED <<routerVars, tokenVars, projectVars, auxVars, cleanVars, convVars>>

InitMaxTok ==
    /\ GatewayIdle
    /\ CleanIdle
    /\ ConvIdle
    /\ mtBody \in Bodies
    /\ mtResult = NotAdjusted

\* The translator sets max_tokens of the request it builds.
AdjustMaxTokens ==
    /\ mtResult = NotAdjusted
    /\ mtResult' = adjustMaxTokens(mtBody)
    /\ UNCHANGED mtBody
    /\ MaxTokFrame

NextMaxTok == AdjustMaxTokens

SpecMaxTok == InitMaxTok /\ [][NextMaxTok]_vars

\* ------------------------------------------- the fallback loop on its own
\* Two requests and a sync on a record whose two connections are healthy;
\* the web side sends both connections as healthy, updated at T0.
LoopSeed == [c \in Conns |-> IF c = "A" THEN Healthy(1) ELSE Healthy(2)]
WebHealthy(prio) == [Healthy(prio) EXCEPT !.status = "null", !.updatedAt = T0]
LoopBodies == { [c \in Conns |-> IF c = "A" THEN WebHealthy(1) ELSE WebHealthy(2)] }

InitLoop ==
    /\ now = T0
    /\ events = 0
    /\ db = LoopSeed
    /\ heap = [i \in ObjIds |-> EmptyRec]
    /\ cache = NoCache
    /\ pc = [p \in Procs |-> "idle"]
    /\ obj = [p \in Procs |-> 0]
    /\ pending = [p \in Procs |-> EmptyRec]
    /\ cred = [r \in Reqs |-> NoCred]
    /\ exclude = [r \in Reqs |-> "-"]
    /\ lastStatus = [r \in Reqs |-> 0]
    /\ resp = [r \in Reqs |-> NoResp]
    /\ attempts = [r \in Reqs |-> <<>>]
    /\ marks = [r \in Reqs |-> <<>>]
    /\ successCalls = [r \in Reqs |-> <<>>]
    /\ syncBody = EmptyRec
    /\ TokenIdle
    /\ ProjectIdle
    /\ XlatIdle
    /\ AuxIdle

UpstreamLoop(r) ==
    /\ Len(attempts["r1"]) + Len(attempts["r2"]) < MaxTries
    /\ UpstreamBody(r)

NextLoop ==
    \/ \E r \in Reqs : Start(r)
    \/ \E r \in Reqs : Select(r)
    \/ \E r \in Reqs : UpstreamLoop(r)
    \/ \E r \in Reqs : Mark(r)
    \/ \E r \in Reqs : MarkSave(r)
    \/ SyncPostOf(LoopBodies)
    \/ SyncSave

SpecLoop == InitLoop /\ [][NextLoop]_vars

\* ------------------------- projectId.js: the fetch behind a caller's promise
FetchFrame == UNCHANGED <<routerVars, tokenVars, auxVars, xlatVars>>

\* The fetch whose promise getProjectIdForConnection returns when the row is
\* not fresh: the registered one, else the one it starts.
Handed == IF pendingFetches.fetch # 0 THEN pendingFetches.fetch ELSE calls + 1

\* getProjectIdForConnection, called by an executor or, after
\* invalidateProjectId, by _refreshProjectId, which keeps the promise.
CallProjectId ==
    /\ \E invalidate \in BOOLEAN :
          /\ GetProjectIdOf(invalidate)
          /\ refreshCalls' =
                IF invalidate
                THEN [refreshCalls EXCEPT ![calls + 1] =
                          [fetch |-> Handed, persisted |-> FALSE]]
                ELSE refreshCalls
    /\ UNCHANGED removedUpTo
    /\ FetchFrame

\* The then-callbacks of _refreshProjectId when fetch f ends with out: a
\* project id is handed to updateProviderCredentials, null is dropped.
Persisted(f, out) ==
    [c \in FetchIds |->
        IF refreshCalls[c].fetch = f /\ out = "p1"
        THEN [refreshCalls[c] EXCEPT !.persisted = TRUE]
        ELSE refreshCalls[c]]

LoadAnswers(f) ==
    /\ \E out \in FetchOutcomes :
          /\ LoadRespondsOf(f, out)
          /\ refreshCalls' = Persisted(f, out)
    /\ UNCHANGED removedUpTo
    /\ FetchFrame

PollAnswers(f) ==
    /\ \E out \in FetchOutcomes :
          /\ PollRespondsOf(f, out)
          /\ refreshCalls' = Persisted(f, out)
    /\ UNCHANGED removedUpTo
    /\ FetchFrame

SleepOver(f) ==
    /\ \E out \in FetchOutcomes :
          /\ SleepEndsOf(f, out)
          /\ refreshCalls' = Persisted(f, out)
    /\ UNCHANGED removedUpTo
    /\ FetchFrame

\* releaseConnection(connectionId), noted in the history.
Remove ==
    /\ ReleaseConnectionBody
    /\ removedUpTo' = calls
    /\ UNCHANGED refreshCalls
    /\ FetchFrame

NextFetch ==
    \/ CallProjectId
    \/ \E f \in FetchIds : LoadAnswers(f)
    \/ \E f \in FetchIds : PollAnswers(f)
    \/ \E f \in FetchIds : SleepOver(f)
    \/ Remove

SpecFetch == InitProj /\ [][NextFetch]_vars


\* ================================================================ claims
Other(r) == CHOOSE q \in Reqs : q # r

NoSavePending ==
    \A p \in Procs : pc[p] \notin {"mark_save", "clear_save", "upd_save", "sync_save"}

\* Health state of a connection record after a success.
Cleared(c) ==
    /\ c.backoffLevel \in {0, Undef}
    /\ c.lastError = "null"
    /\ c.rateLimitedUntil = 0
    /\ c.status = "active"

\* C1: when a request is answered with a success obtained with connection c,
\* the stored record of c has backoffLevel 0, no lastError, no
\* rateLimitedUntil and status active (stated for runs without clock
\* advance, token refresh or sync, at a moment when no save is in flight).
C1_SuccessClearsAccount ==
    [][\A r \in Reqs :
        (events' = 0 /\ NoSavePending' /\ pc[r] # "done" /\ pc'[r] = "done"
            /\ resp'[r].kind = "success" /\ resp'[r].conn \in DOMAIN db')
        => Cleared(db'[resp'[r].conn])]_vars

\* C4: a stored connection whose rateLimitedUntil is later than now has
\* status unavailable.
C4_RateLimitedImpliesUnavailable ==
    \A c \in DOMAIN db :
        db[c].rateLimitedUntil > now => db[c].status = "unavailable"

FallbackEligible(status) == checkFallbackError(status, 0).shouldFallback

C3_OneRequestPerAccount ==
    \A r \in Reqs :
        (pc[r] = "upstream" /\ pc[Other(r)] = "upstream")
        => cred[r].id # cred[Other(r)].id

\* C3 amended: a request never executes upstream with the connection it
\* excluded after its previous failed attempt.
C3_NeverTheExcludedAccount ==
    \A r \in Reqs :
        pc[r] \in {"upstream", "upd", "upd_save", "clear", "clear_save", "mark", "mark_save"}
        => cred[r].id # exclude[r]

\* A request is at its second attempt, with another connection than the
\* one it excluded.
C3_Witness ==
    \E r \in Reqs :
        /\ pc[r] = "upstream" /\ exclude[r] # "-"
        /\ Len(attempts[r]) = 1 /\ attempts[r][1].conn = exclude[r]
        /\ cred[r].id # exclude[r]

C6_FallbackToSecondAccount ==
    \A r \in Reqs :
        (/\ pc[r] = "done" /\ pc[Other(r)] = "idle" /\ events = 0
         /\ db["A"].isActive /\ db["B"].isActive
         /\ db["A"].priority = 1 /\ db["B"].priority = 2
         /\ attempts[r] # <<>>
         /\ \A i \in 1 .. Len(attempts[r]) :
                attempts[r][i].status = (IF attempts[r][i].conn = "A" THEN 429 ELSE 200))
        => /\ attempts[r] = << [conn |-> "A", status |-> 429],
                               [conn |-> "B", status |-> 200] >>
           /\ resp[r] = [status |-> 200, retryAfter |-> 0, kind |-> "success", conn |-> "B"]
           /\ marks[r] = << "A" >>
           /\ db["A"].status = "unavailable" /\ db["A"].rateLimitedUntil > now

\* The request has been answered by B after A returned 429.
C6_Witness ==
    \E r \in Reqs :
        /\ pc[r] = "done" /\ pc[Other(r)] = "idle" /\ events = 0
        /\ attempts[r] = << [conn |-> "A", status |-> 429],
                            [conn |-> "B", status |-> 200] >>
        /\ resp[r].conn = "B"

\* The connections of the upstream calls of r that returned 200.
RECURSIVE SuccessConns(_)
SuccessConns(as) ==
    IF as = <<>> THEN <<>>
    ELSE LET rest == SuccessConns(Tail(as))
         IN IF Head(as).status = 200 THEN <<Head(as).conn>> \o rest ELSE rest

EarliestCode(d) ==
    LET rl == {c \in DOMAIN d : d[c].isActive /\ d[c].rateLimitedUntil > now}
    IN IF rl = {} THEN 0
       ELSE LET m == CHOOSE c \in rl : \A e \in rl \ {c} :
                        \/ d[c].rateLimitedUntil < d[e].rateLimitedUntil
                        \/ d[c].rateLimitedUntil = d[e].rateLimitedUntil /\ Pos(c) < Pos(e)
            IN d[m].errorCode

C9_RetryAfterOn429 ==
    \A r \in Reqs :
        (events = 0 /\ resp[r].status = 429) => resp[r].retryAfter >= 1

Selectable(r) ==
    {c \in DOMAIN db : /\ db[c].provider = Provider
                        /\ db[c].isActive
                        /\ c # exclude[r]
                        /\ ~(db[c].rateLimitedUntil > now)}

PriorityOf(c) == IF db[c].priority = 0 THEN 999 ELSE db[c].priority

\* C12: the selection returns a selectable connection of smallest priority
\* (a missing priority counting as 999), and among the selectable
\* connections of that priority none has a newer updatedAt.
C12_SmallestPriorityNewestFirst ==
    \A r \in Reqs :
        cred[r].kind = "cred"
        => /\ cred[r].id \in Selectable(r)
           /\ \A e \in Selectable(r) :
                \/ PriorityOf(cred[r].id) < PriorityOf(e)
                \/ /\ PriorityOf(cred[r].id) = PriorityOf(e)
                   /\ db[cred[r].id].updatedAt >= db[e].updatedAt

\* The active connections of the provider whose cooldown has not ended.
RateLimitedActive ==
    {c \in DOMAIN db : /\ db[c].provider = Provider /\ db[c].isActive
                        /\ db[c].rateLimitedUntil > now}

\* The connections of the provider whose cooldown has not ended.
RateLimitedAny ==
    {c \in DOMAIN db : db[c].provider = Provider /\ db[c].rateLimitedUntil > now}

\* The selection of r has returned.
Selected(r) == pc[r] \in {"upstream", "done"}

\* C13 as stated: when no connection is selectable and some connection of
\* the provider has rateLimitedUntil > now, the selection returns
\* allRateLimited with the minimum rateLimitedUntil over those connections.
C13_AllRateLimitedOverAll ==
    \A r \in Reqs :
        (Selected(r) /\ Selectable(r) = {} /\ RateLimitedAny # {})
        => /\ cred[r].kind = "allRateLimited"
           /\ \A c \in RateLimitedAny : cred[r].retryAfter <= db[c].rateLimitedUntil
           /\ \E c \in RateLimitedAny : cred[r].retryAfter = db[c].rateLimitedUntil

\* C13 amended: when no connection is selectable and some active connection
\* of the provider has rateLimitedUntil > now, the selection returns
\* allRateLimited with the minimum rateLimitedUntil over those connections
\* and the last error and error code of a connection that has that minimum;
\* when no active connection is rate-limited it returns nothing.
C13_AllRateLimitedOverActive ==
    \A r \in Reqs :
        (Selected(r) /\ Selectable(r) = {})
        => IF RateLimitedActive # {}
           THEN /\ cred[r].kind = "allRateLimited"
                /\ \A c \in RateLimitedActive : cred[r].retryAfter <= db[c].rateLimitedUntil
                /\ \E c \in RateLimitedActive :
                        /\ cred[r].retryAfter = db[c].rateLimitedUntil
                        /\ cred[r].lastError = db[c].lastError
                        /\ cred[r].lastErrorCode = db[c].errorCode
           ELSE cred[r].kind = "none"

\* Two active connections are rate-limited until different times and the
\* selection reports the earlier one, which is B.
C13_Witness ==
    \E r \in Reqs :
        /\ cred[r].kind = "allRateLimited"
        /\ RateLimitedActive = {"A", "B"}
        /\ db["B"].rateLimitedUntil < db["A"].rateLimitedUntil
        /\ cred[r].retryAfter = db["B"].rateLimitedUntil
        /\ cred[r].lastError = "errB"

\* A credential update has been made.
Updated == tokResult # NoNew

\* C14: after a refresh-triggered credential update, a connection whose
\* accessToken was non-null still has a non-null accessToken.
C14_AccessTokenNeverNulled ==
    (Updated /\ tokBefore.accessToken # "null") => tokStored.accessToken # "null"

\* C15: a credential update merges the refresh result field by field: a
\* Copilot token it carries is stored; access token, refresh token, expiry,
\* project id and providerSpecificData keep their values when absent from
\* the result; and a result that brings a Copilot token in
\* providerSpecificData leaves the other keys of providerSpecificData as
\* they were.
C15_MergedFieldWise ==
    Updated
    => /\ tokResult.copilotToken # "null"
            => tokStored.providerSpecificData.copilotToken = tokResult.copilotToken
       /\ tokResult.accessToken = "null" => tokStored.accessToken = tokBefore.accessToken
       /\ tokResult.refreshToken = "null" => tokStored.refreshToken = tokBefore.refreshToken
       /\ tokResult.expiresIn = 0
            => /\ tokStored.expiresIn = tokBefore.expiresIn
               /\ tokStored.expiresAt = tokBefore.expiresAt
       /\ tokResult.projectId = "null" => tokStored.projectId = tokBefore.projectId
       /\ ~tokResult.hasPsd
            => tokStored.providerSpecificData = tokBefore.providerSpecificData
       /\ tokResult.hasPsd
            => tokStored.providerSpecificData.baseUrl
                 = tokBefore.providerSpecificData.baseUrl

\* The step is the first getMachineData call of request r.
FirstRead(r) == pc[r] = "select" /\ attempts[r] = <<>> /\ pc'[r] # "select"

\* C16: no record memoised while serving one request is returned to a
\* different request: the first getMachineData call of a request, before
\* which it has memoised nothing itself, never returns the cached object.
C16_NoCacheAcrossRequests ==
    [][\A r \in Reqs : FirstRead(r) => ~CacheHit]_vars

\* Fetch f of fs is making upstream calls: started, not settled, not aborted.
InFlightIn(fs, f) ==
    fs[f].phase \in {"load", "poll", "sleep"} /\ fs[f].aborted = "no"

InFlight == {f \in FetchIds : InFlightIn(fetches, f)}

\* C17: at any time at most one project-ID fetch is in flight for the
\* connection, the one concurrent callers are handed.
C17_SingleFlight == Cardinality(InFlight) <= 1

\* The step is a releaseConnection call that finds something to remove.
ReleaseStep ==
    /\ calls' = calls /\ now' = now /\ nextSweep' = nextSweep
    /\ upstreamConn' = upstreamConn
    /\ \A f \in FetchIds : fetches'[f].phase = fetches[f].phase
    /\ <<projectIdCache, pendingFetches, fetches>>'
            # <<projectIdCache, pendingFetches, fetches>>

\* C18: when the connection is removed, every project-ID fetch in flight for
\* it is aborted and its cache row is evicted.
C18_RemoveAbortsAndEvicts ==
    [][ReleaseStep
        => /\ ~projectIdCache'.has
           /\ \A f \in FetchIds : ~InFlightIn(fetches', f)]_vars

\* C19: when the client aborts the request, the upstream connection is
\* aborted and no project-ID fetch of the connection, onboardUser poll
\* included, goes on running.
C19_ClientAbortStopsPoll ==
    [][(upstreamConn = "open" /\ upstreamConn' # "open")
        => /\ upstreamConn' = "aborted"
           /\ \A f \in FetchIds : ~InFlightIn(fetches', f)]_vars

C21_FivePollsTwoSecondsApart ==
    /\ attempt <= MAX_ATTEMPTS
    /\ attempt > 1 => lastGap = POLL_DELAY
    /\ onbPc \in {"fetch", "body"} => timer <= ATTEMPT_TIMEOUT

\* C23: the models of a combo are tried one after the other in declared
\* order; a model is tried only when every model before it ended with a 5xx
\* status, and an attempt that ended otherwise is passed to the client as
\* it is, with no further attempt.
C23_NextModelOn5xxOnly ==
    /\ comboTried = SubSeq(models, 1, Len(comboTried))
    /\ \A j \in 1 .. Len(comboTried) :
          LET result == comboOutcomes[j]
          IN IF result >= 500 /\ result <= 599
             THEN j = Len(comboTried) => comboResp.from \in {"none", "combo"}
             ELSE /\ j = Len(comboTried)
                  /\ comboResp = [status |-> result, from |-> models[j]]

\* The first model answered 5xx and the second one's 429 went to the client.
C23_Witness ==
    /\ Len(comboTried) = 2
    /\ comboOutcomes[1] = 500
    /\ comboResp = [status |-> 429, from |-> models[2]]

\* Call q has been told by /chat/completions that its model is not
\* accessible there.
ToldNotAccessible(cs, q) ==
    /\ cs[q] # <<>>
    /\ cs[q][1] = [url |-> "/chat/completions", answer |-> "notAccessible"]

\* C22: once /chat/completions has answered the 400 that names the endpoint
\* for a model, the model stays in knownCodexModels, the request is sent
\* again to /responses, and every call that starts later for the same model
\* requests /responses only.
C22_KnownModelGoesToResponses ==
    [][/\ knownCodexModels \subseteq knownCodexModels'
       /\ \A q \in GhReqs :
             /\ ToldNotAccessible(ghCalls', q)
                   => /\ ghModel'[q] \in knownCodexModels'
                      /\ Len(ghCalls'[q]) = 2
                      /\ ghCalls'[q][2].url = "/responses"
             /\ (ghPc[q] = "new" /\ ghPc'[q] # "new"
                 /\ \E p \in GhReqs : /\ ToldNotAccessible(ghCalls, p)
                                      /\ ghModel[p] = ghModel'[q])
                   => ghCalls'[q] = <<Call("/responses")>>]_vars

\* A second call for a model that was cached by the first has gone to
\* /responses without asking /chat/completions.
C22_Witness ==
    /\ ToldNotAccessible(ghCalls, "g1")
    /\ ghModel["g2"] = ghModel["g1"]
    /\ ghPc["g2"] = "done"
    /\ ghCalls["g2"] = <<[url |-> "/responses", answer |-> "ok"]>>

Frames == {down[i] : i \in 1 .. Len(down)}

\* The upstream body has ended without failing and held its terminator.
UpstreamCompleted ==
    /\ upstream.state = "ended"
    /\ \/ upstream.tail.kind = "done"
       \/ \E i \in 1 .. Len(upstream.lines) : upstream.lines[i].kind = "done"

\* C24: when the stream is over, "data: [DONE]" has been emitted downstream
\* if and only if the client asked for streaming and the upstream completed
\* without failing.
C24_DoneIffStreamingAndCompleted ==
    upstream.state \in {"ended", "failed"}
        => (DoneFrame \in Frames <=> clientStream /\ UpstreamCompleted)

\* C25: a failure never errors the downstream stream: it is written as an
\* error frame followed by "data: [DONE]", and the stream is closed.
C25_FailureReportedInBand ==
    upstream.state = "failed"
        => /\ downState = "closed"
           /\ Len(down) >= 2
           /\ down[Len(down)] = DoneFrame
           /\ down[Len(down) - 1] = "data: {error}"

\* The data lines that were not JSON among those handled so far.
InvalidRead ==
    {upstream.lines[i] : i \in 1 .. upstream.read} \cap
        {Line("invalid", n) : n \in InvalidLengths}

\* C26: a data line that is not JSON is logged and the stream goes on when
\* it is at most 1 kB long, and the stream fails when it is longer.
C26_SmallLoggedLargeFails ==
    \A line \in InvalidRead :
        IF line.length <= LOG_LIMIT
        THEN \E i \in 1 .. Len(logged) : logged[i] = line.length
        ELSE downState = "errored"

\* Index an output item was declared for; an item that declares none is
\* taken as declaring 0.
DeclaredIndex(msg) == IF msg.output_index = Undef THEN 0 ELSE msg.output_index

\* Positions of the response.output_item.done messages that declare index i.
ItemsFor(i) ==
    {j \in 1 .. Len(sseMessages) :
        /\ sseMessages[j].event = "response.output_item.done"
        /\ DeclaredIndex(sseMessages[j]) = i}

\* C27: in the collapsed response every output item stands in output[] at
\* its declared output_index (the last one declared for an index, when
\* several were), every index that received no item and lies below the
\* highest declared one holds an empty assistant message, and output[] ends
\* at the highest declared index.
C27_ItemsAtDeclaredIndex ==
    collapsed.status # "none"
        => /\ \A i \in Indexes :
                 LET last == sseMessages[MaxKey(ItemsFor(i))]
                 IN IF ItemsFor(i) # {} /\ last.item # "null"
                    THEN /\ Len(collapsed.output) > i
                         /\ collapsed.output[i + 1] = last.item
                    ELSE Len(collapsed.output) > i
                            => collapsed.output[i + 1] = EmptyMessage
           /\ Len(collapsed.output) =
                 Cardinality({i \in Indexes : \E d \in Indexes :
                                 ItemsFor(d) # {} /\ i <= d})

\* Items were declared for the indexes 0 and 2 only, out of order, and the
\* gap at index 1 was filled.
C27_Witness ==
    /\ Len(sseMessages) = 2
    /\ sseMessages[1].output_index = 2
    /\ collapsed.output = <<"b", EmptyMessage, "a">>

\* The name is a match of [A-Za-z_][A-Za-z0-9_.:-]{0,63}.
MatchesNameRule(name) ==
    /\ ~name.pad
    /\ name.len >= 1
    /\ name.len <= 64
    /\ name.badAt = 0 \/ name.badAt > name.len

\* C30: whatever the tool array, sanitizeTools returns at most 128 tools and
\* the function name of every tool it returns matches
\* [A-Za-z_][A-Za-z0-9_.:-]{0,63}.
C30_AtMost128ValidNames ==
    sanitized # NotSanitized
        => /\ Len(sanitized) <= 128
           /\ \A i \in 1 .. Len(sanitized) :
                 sanitized[i].function => MatchesNameRule(sanitized[i].name)

\* An array of 129 tools whose 128th name has 65 characters: the name is
\* cut to 64 characters and the 129th tool is dropped.
C30_Witness ==
    /\ Len(tools) = 129
    /\ tools[128].name = Name(0, 65, 0, FALSE)
    /\ tools[129].type = "custom"
    /\ Len(sanitized) = 128
    /\ sanitized[128].name.len = 64

\* The request is given to handleEmbeddings by the router.
ToEmbeddings == IsEmbeddings(wReq) /\ wReq.method = "POST"

\* The bearer key is missing, malformed, or not in the apiKeys of the
\* machine that the URL or the key names.
BadKey ==
    \/ wReq.Authorization.scheme # "Bearer"
    \/ wReq.Authorization.key = "sk-malformed"
    \/ \E m \in {MachineIdOverride(wReq), parseApiKey(wReq.Authorization.key).machineId} :
          /\ m \notin {"null", "unparsed"}
          /\ wReq.Authorization.key \notin apiKeys(wReq, m)

\* C28: an embeddings request whose bearer key is missing, malformed or not
\* among the apiKeys of its machine never comes to credential selection or
\* to an upstream call, and is answered 401; a key that no machine holds
\* never comes that far either, whatever the answer.
C28_BadKeyIs401 ==
    /\ ToEmbeddings /\ BadKey
          => /\ wPc \notin {"body", "selection"}
             /\ wPc = "done" => wResp.status = UNAUTHORIZED /\ wResp.stage = "key"
    /\ ToEmbeddings /\ wReq.Authorization.key \notin apiKeys(wReq, "m1")
          => wPc \notin {"body", "selection"}

\* A key of the right format that the machine does not hold was answered
\* 401.
C28_Witness ==
    /\ wReq.path = "/v1/embeddings"
    /\ wReq.Authorization = Header("Bearer", "sk-m1-unknown")
    /\ wReq.machine
    /\ wPc = "done"
    /\ wResp.status = 401

\* C29: every response of the worker carries
\* Access-Control-Allow-Origin: *.
C29_EveryResponseHasCors == wPc = "done" => wResp.cors

\* The array has at most 128 tools and the name of every function tool in
\* it is valid.
AllValid ==
    /\ Len(tools) <= MAX_TOOLS
    /\ \A i \in 1 .. Len(tools) :
          tools[i].type = "function" /\ tools[i].function
              => MatchesNameRule(tools[i].name)

\* No two function tools of the array have the same name.
DistinctNames ==
    \A i, j \in 1 .. Len(tools) :
        /\ i # j
        /\ tools[i].type = "function" /\ tools[i].function
        /\ tools[j].type = "function" /\ tools[j].function
        => tools[i].name # tools[j].name

\* C31 as stated: an array of at most 128 tools whose names are all valid
\* is returned unchanged by sanitizeTools.
C31_ValidArrayUnchanged ==
    sanitized # NotSanitized /\ AllValid => sanitized = tools

\* C31 amended: an array of at most 128 tools whose names are all valid and
\* pairwise distinct is returned unchanged by sanitizeTools.
C31_ValidDistinctArrayUnchanged ==
    sanitized # NotSanitized /\ AllValid /\ DistinctNames => sanitized = tools

\* 128 function tools with valid, distinct names of 64 characters went
\* through sanitizeTools.
C31_Witness ==
    /\ Len(tools) = MAX_TOOLS
    /\ AllValid
    /\ DistinctNames
    /\ tools[MAX_TOOLS].type = "function" /\ tools[MAX_TOOLS].function
    /\ sanitized = tools

\* C32: the cleaned schema has no key of UNSUPPORTED_SCHEMA_CONSTRAINTS,
\* however deep in it.
C32_NoUnsupportedKey ==
    cleaned # NotCleaned
        => \A p \in DOMAIN cleaned :
              \A i \in 1 .. Len(p) : p[i] \notin UNSUPPORTED_SCHEMA_CONSTRAINTS

\* A schema with an unsupported key under supported keys only, four levels
\* down, was cleaned and the schemas above that key are still there.
C32_Witness ==
    /\ cleaned # NotCleaned
    /\ \E p \in DOMAIN schema :
          /\ Len(p) >= 4
          /\ p[Len(p)] \in UNSUPPORTED_SCHEMA_CONSTRAINTS
          /\ \A i \in 1 .. Len(p) - 1 : p[i] \notin UNSUPPORTED_SCHEMA_CONSTRAINTS
          /\ SubSeq(p, 1, Len(p) - 1) \in DOMAIN cleaned

\* The assistant turn that the tool results of message i follow: the last
\* assistant message before i with nothing but tool messages in between, 0
\* when there is none.
PrevAssistant(i) ==
    LET J == {j \in 1 .. i - 1 :
                /\ chat[j].role = "assistant"
                /\ \A k \in j + 1 .. i - 1 : chat[k].role = "tool"}
    IN IF J = {} THEN 0 ELSE CHOOSE j \in J : TRUE

\* C33: every tool result that follows an assistant turn with a tool call
\* of the same id is wrapped, in the user message made from it, with the
\* name of that tool call.
C33_ToolResultCarriesName ==
    converted # NotConverted
        => \A i \in 1 .. Len(chat) : \A r \in 1 .. Len(chat[i].results) :
              LET j == PrevAssistant(i)
              IN j # 0 =>
                    \A c \in 1 .. Len(chat[j].calls) :
                        chat[j].calls[c].id = chat[i].results[r]
                            => \E m \in 1 .. Len(converted) :
                                  /\ converted[m].from = i
                                  /\ converted[m].role = "user"
                                  /\ converted[m].wrapped[r] =
                                        Wrapped(chat[i].results[r], chat[j].calls[c].name)

\* C40: when the body sets a thinking budget, the value adjustMaxTokens
\* returns is greater than the budget.
C40_MaxTokensAboveBudget ==
    mtResult # NotAdjusted /\ mtBody.budget_tokens # 0
        => mtResult > mtBody.budget_tokens

\* C34: a request never calls the upstream twice with the same connection,
\* so it makes at most as many upstream calls as the provider has
\* connections.
C34_NoConnectionTwice ==
    \A r \in Reqs :
        /\ \A i, j \in 1 .. Len(attempts[r]) :
              i # j => attempts[r][i].conn # attempts[r][j].conn
        /\ Len(attempts[r]) <= Cardinality(Conns)

\* Request r has marked a connection and its markAccountUnavailable has
\* returned.
MarkCompleted(r) == marks[r] # <<>> /\ pc[r] \notin {"mark", "mark_save"}

\* C35: updates of concurrent requests to one machine record are not lost:
\* once two requests have each completed markAccountUnavailable, for
\* different connections, and nothing else has touched the record (no sync,
\* no token refresh, no time passed), both connections are stored as
\* unavailable.
C35_BothUpdatesStored ==
    (/\ events = 0
     /\ \A r \in Reqs : MarkCompleted(r)
     /\ LastMark("r1") # LastMark("r2"))
    => \A r \in Reqs : db[LastMark(r)].status = "unavailable"

\* Fetch f settles in this step.
Settles(f) == fetches[f].phase # "settled" /\ fetches'[f].phase = "settled"

\* C37: a project-ID fetch that settles removes only its own row from the
\* pending-fetch map: when the row registered at that moment belongs to a
\* newer fetch, the row stays as it is.
C37_SettleKeepsNewerRow ==
    [][\A f \in FetchIds :
          (Settles(f) /\ pendingFetches.fetch \notin {0, f})
          => pendingFetches' = pendingFetches]_vars

\* C36: after removeConnection no fetch that was started before it writes a
\* project id into the cache: a row is written only by the fetch of a
\* getProjectIdForConnection call made after the last removeConnection.
C36_NoWriteAfterRemove ==
    [][\A f \in FetchIds :
          (Settles(f) /\ projectIdCache' # projectIdCache) => f > removedUpTo]_vars

\* C38: the project id that _refreshProjectId persists after a token
\* refresh comes from a fetch started after the invalidation, with the new
\* access token: the fetch behind the promise is the one its own call
\* started.
C38_PersistedFromOwnFetch ==
    \A c \in FetchIds : refreshCalls[c].persisted => refreshCalls[c].fetch = c

\* POST /sync is received in this step.
SyncPosts == pc["sync"] = "idle" /\ pc'["sync"] = "sync_save"

\* The sides whose record newer-wins may take: the one with the later
\* updatedAt, either one when they are equal.
NewerSides(web, worker) ==
    {s \in {web, worker} : s.updatedAt >= web.updatedAt /\ s.updatedAt >= worker.updatedAt}

\* C39: on POST /sync the record stored for a provider id that the payload
\* and the worker both hold is the whole record of the side with the newer
\* updatedAt, its health fields included: status (a missing one reads as
\* active), rateLimitedUntil, lastError and backoffLevel.
C39_NewerSideStoredWhole ==
    [][SyncPosts =>
        \A c \in DOMAIN syncBody' \cap DOMAIN DataHeap[DataObj] :
            \E s \in NewerSides(syncBody'[c], DataHeap[DataObj][c]) :
                LET stored == pending'["sync"][c]
                IN /\ stored.status = (IF s.status = "null" THEN "active" ELSE s.status)
                   /\ stored.rateLimitedUntil = s.rateLimitedUntil
                   /\ stored.lastError = s.lastError
                   /\ stored.backoffLevel = s.backoffLevel]_vars

====
